---- MODULE Spec2Model ----
(***************************************************************************)
(* The frame-to-frame object tracker of the traffic monitor                *)
(* (src/services/geminiService.ts, class ObjectTracker) as a state         *)
(* machine, and the application that feeds it (src/App.tsx).               *)
(*                                                                         *)
(* Numbers.  Boxes are [ymin, xmin, ymax, xmax] with integer coordinates   *)
(* in 0..1000.  The code computes in IEEE-754 doubles; the model keeps     *)
(* every double as the exact integers it is computed from:                 *)
(*   - an IoU is the pair <<interArea, unionArea>> (the quotient the code  *)
(*     returns); two such quotients of integers below 2*10^6 that differ   *)
(*     do so by more than 10^-13, far more than a rounding error, so the   *)
(*     code's comparisons of IoUs are comparisons of the fractions;        *)
(*   - a centroid [x, y] is the pair <<xmin+xmax, ymin+ymax>>, that is the *)
(*     code's value times 2000 (s -> s/2/1000 is one-to-one on integers);  *)
(*   - dy is the difference of two such sums (the code's dy times 2000).   *)
(* Where a rounding error of the double arithmetic decides a result (the     *)
(* floor in the speed), the model lists the operands for which it does.    *)
(***************************************************************************)
EXTENDS Integers, Sequences, FiniteSets, TLC

VARIABLES
    tracks,      \* ObjectTracker.tracks: the store, in insertion order
    nextId,      \* ObjectTracker.nextId
    op,          \* the last operation run on the tracker
    detections,  \* update(): the list as it was passed in
    timestamp,   \* update(): the timestamp argument
    returned,    \* update(): the list as it was returned
    count,       \* getActiveTracksCount(): the value returned
    threw,       \* update(): TRUE when the call ended in a TypeError
    prev,        \* the store when the last operation began
    matched,     \* update(): the accepted matches, <<track id, list position>>
    created,     \* update(): the tracks created, <<track id, list position>>
    issued,      \* every id given to a track since construction or reset()
    evicted,     \* [id, box] of every track removed by cleanup since then
    idle,        \* <<id, n>>: the last n update() calls did not match track id
    scenes,      \* frame source: scenes shown so far
    scene,       \* frame source: the current scene (its detections, or its frames)
    left,        \* frame source: further frames the current scene is held for
    argA,        \* calculateIoU(): the first argument
    argB,        \* calculateIoU(): the second argument
    iouResult,   \* calculateIoU(): the value returned
    status,      \* App: the agent status shown (React state)
    uiResult,    \* App: the analysis shown, as the context it came from
    isCameraActive,      \* App: React state
    cameraStream,        \* App: the camera stream, as the session that got it
    processingVideo,     \* App: React state
    simulationRef,       \* App: simulationRef.current
    videoProcessingRef,  \* App: videoProcessingRef.current
    videoSrc,    \* the video element: no source, loading, or loaded
    seeking,     \* the video element: a seek is under way
    tasks,       \* App: the awaits not yet settled, with what awaits them
    sessions,    \* uploads, camera starts and simulation starts so far
    captured,    \* frames captured from the current camera stream
    unreset,     \* contexts begun since the last reset() of the tracker
    caller,      \* the task whose processImage made the last update()
    stopped,     \* App: stopAllModes() was called by Reset, Stop or Home, and
                 \* nothing has been started since
    client       \* Gemini client: the analyzeTrafficImage() call under way

trackerVars ==
    <<tracks, nextId, op, detections, timestamp, returned, count, threw,
      prev, matched, created, issued, evicted, idle, scenes, scene, left,
      argA, argB, iouResult>>
appVars ==
    <<status, uiResult, isCameraActive, cameraStream, processingVideo,
      simulationRef, videoProcessingRef, videoSrc, seeking, tasks, sessions,
      captured, unreset, caller, stopped>>
clientVars == <<client>>
vars == <<trackerVars, appVars, clientVars>>

-----------------------------------------------------------------------------
(* Values *)

\* An optional field of a DetectionItem: absent, or present with a value.
undefined == <<>>
Some(v) == <<v>>

Min(a, b) == IF a < b THEN a ELSE b
Max(a, b) == IF a > b THEN a ELSE b
Abs(a) == IF a < 0 THEN -a ELSE a

\* Tuned parameters and thresholds of the tracker.
maxMissingFrames == 50
iouThreshold == <<3, 20>>      \* 0.15
SPEED_LIMIT == 80
historyLimit == 10
laneDepth == 4

-----------------------------------------------------------------------------
(* Helpers of the tracker *)

\* getCentroid: [x, y]; each component is the code's value times 2000.
getCentroid(box) == <<box[2] + box[4], box[1] + box[3]>>

\* The quotient a[1]/a[2] is greater than b[1]/b[2] (denominators not 0).
FracGt(a, b) ==
    LET an == IF a[2] < 0 THEN -a[1] ELSE a[1]
        ad == Abs(a[2])
        bn == IF b[2] < 0 THEN -b[1] ELSE b[1]
        bd == Abs(b[2])
    IN  an * bd > bn * ad

\* (mutant) the union is not tested for 0 before the division
calculateIoUNoGuard(boxA, boxB) ==
    LET yA == Max(boxA[1], boxB[1])
        xA == Max(boxA[2], boxB[2])
        yB == Min(boxA[3], boxB[3])
        xB == Min(boxA[4], boxB[4])
        interArea == Max(0, xB - xA) * Max(0, yB - yA)
        boxAArea == (boxA[3] - boxA[1]) * (boxA[4] - boxA[2])
        boxBArea == (boxB[3] - boxB[1]) * (boxB[4] - boxB[2])
    IN  <<interArea, boxAArea + boxBArea - interArea>>

\* (mutant) the overlap is divided by the area of the first box
calculateIoUOverA(boxA, boxB) ==
    LET yA == Max(boxA[1], boxB[1])
        xA == Max(boxA[2], boxB[2])
        yB == Min(boxA[3], boxB[3])
        xB == Min(boxA[4], boxB[4])
        interArea == Max(0, xB - xA) * Max(0, yB - yA)
        boxAArea == (boxA[3] - boxA[1]) * (boxA[4] - boxA[2])
    IN  IF boxAArea = 0 THEN <<0, 1>> ELSE <<interArea, boxAArea>>

\* (mutant) the overlap is not taken off the sum of the areas
calculateIoUSum(boxA, boxB) ==
    LET yA == Max(boxA[1], boxB[1])
        xA == Max(boxA[2], boxB[2])
        yB == Min(boxA[3], boxB[3])
        xB == Min(boxA[4], boxB[4])
        interArea == Max(0, xB - xA) * Max(0, yB - yA)
        boxAArea == (boxA[3] - boxA[1]) * (boxA[4] - boxA[2])
        boxBArea == (boxB[3] - boxB[1]) * (boxB[4] - boxB[2])
    IN  IF boxAArea + boxBArea = 0 THEN <<0, 1>>
        ELSE <<interArea, boxAArea + boxBArea>>

\* calculateIoU: the quotient interArea / union, or 0 when the union is 0.
calculateIoU(boxA, boxB) ==
    LET yA == Max(boxA[1], boxB[1])
        xA == Max(boxA[2], boxB[2])
        yB == Min(boxA[3], boxB[3])
        xB == Min(boxA[4], boxB[4])
        interArea == Max(0, xB - xA) * Max(0, yB - yA)
        boxAArea == (boxA[3] - boxA[1]) * (boxA[4] - boxA[2])
        boxBArea == (boxB[3] - boxB[1]) * (boxB[4] - boxB[2])
    IN  IF boxAArea + boxBArea - interArea = 0 THEN <<0, 1>>
        ELSE <<interArea, boxAArea + boxBArea - interArea>>


\* Math.floor(absDeltaY * 1000 * 1.5) for deltaY = newY - oldY.  Exactly, this
\* is floor(3 * |newY - oldY| / 4).  In doubles the difference of two centroid
\* components can fall just below the exact value, and when the exact product
\* is a whole number the floor then lands one lower.  For the coordinates of
\* this model that happens for the operands listed (0.48 - 0.45 evaluates to
\* 0.02999999999999997, so the speed is 44 and not 45; 0.51 - 0.582 to
\* -0.07199999999999995, so the speed is 107 and not 108).
SpeedRoundsDown ==
    {<<900, 960>>, <<960, 900>>, <<1164, 1020>>, <<1164, 1032>>, <<1186, 1054>>}

speedOf(oldY, newY) ==
    LET exact == (3 * Abs(newY - oldY)) \div 4
    IN  IF <<oldY, newY>> \in SpeedRoundsDown THEN exact - 1 ELSE exact

\* Math.abs(endX - startX) > 0.03 on centroid x components (0.03 is 60/2000).
\* No two x components of this model are exactly 60 apart, the one distance
\* at which rounding would decide the comparison.
lateralDisplacementExceeds(startX, endX) == Abs(endX - startX) > 60

\* Math.abs(dy) > 0.001 and Math.abs(dy) > 0.005 (2/2000 and 10/2000); no dy
\* of this model is exactly 2 or 10.
isMoving(dy) == Abs(dy) > 2
isSignificant(dy) == Abs(dy) > 10

\* Math.sign
sign(n) == IF n > 0 THEN 1 ELSE IF n < 0 THEN -1 ELSE 0

\* (mutant) the filter forgets the kind: d => d.box_2d
isTrackableAnyKind(d) == d.box_2d # undefined

\* d => d.box_2d && d.type === 'vehicle'
isTrackable(d) == d.box_2d # undefined /\ d.type = "vehicle"

\* detections.filter(...): the list positions of the kept items, in order.
\* validDetections[index] of the code is detections[valid[index + 1]].
RECURSIVE filterPositions(_, _)
filterPositions(dets, p) ==
    IF p > Len(dets) THEN <<>>
    ELSE (IF isTrackable(dets[p]) THEN <<p>> ELSE <<>>) \o filterPositions(dets, p + 1)

validDetections(dets) == filterPositions(dets, 1)

\* (mutant) the aging step also clears the speed
predictStale(t) == [t EXCEPT !.missingFrames = @ + 1, !.speed = 0]

\* (mutant) the aging step is left out
predictNone(t) == t

\* this.tracks.forEach(t => t.missingFrames++)
predict(t) == [t EXCEPT !.missingFrames = @ + 1]

\* (mutant) a detection as good as the best so far replaces it
isBetterMatchTie(iou, bestIoU) == FracGt(iou, iouThreshold) /\ ~FracGt(bestIoU, iou)

\* (mutant) the comparison with the best so far is left out
isBetterMatchLast(iou, bestIoU) == FracGt(iou, iouThreshold)

\* iou > this.iouThreshold && iou > bestIoU
isBetterMatch(iou, bestIoU) == FracGt(iou, iouThreshold) /\ FracGt(iou, bestIoU)

\* The inner forEach of the matching loop: the best unmatched detection for
\* one track, as [index, iou]; index -1 when none qualifies.
RECURSIVE scanDetections(_, _, _, _, _, _)
scanDetections(track, dets, valid, unmatched, index, best) ==
    IF index >= Len(valid) THEN best
    ELSE
      LET det == dets[valid[index + 1]]
          skip == index \notin unmatched \/ det.box_2d = undefined
          iou == calculateIoU(track.box, det.box_2d)
      IN  scanDetections(track, dets, valid, unmatched, index + 1,
            IF ~skip /\ isBetterMatch(iou, best.iou)
              THEN [index |-> index, iou |-> iou]
              ELSE best)

\* (mutant) only the last two entries are compared
historyDepthTwo(len) == Min(len, 2)

\* (mutant) the depth is not limited to the entries there are
historyDepthFixed(len) == laneDepth

\* Math.min(track.history.length, 4)
historyDepth(len) == Min(len, laneDepth)

\* (mutant) the oldest entry is never dropped
pushHistoryNoShift(history, newCentroid) == Append(history, newCentroid)

\* history.push(newCentroid); if (history.length > 10) history.shift()
pushHistory(history, newCentroid) ==
    LET h == Append(history, newCentroid)
    IN  IF Len(h) > historyLimit THEN Tail(h) ELSE h

\* (mutant) the matched detection stays in the unmatched set
claimDetectionNot(unmatched, index) == unmatched

\* unmatchedDetections.delete(bestMatchIndex)
claimDetection(unmatched, index) == unmatched \ {index}

\* (mutant) the detection is given the counter's value, not the track's id
assignToDetectionNext(det, id, speed, laneStatus) ==
    [det EXCEPT !.trackId = Some(id + 1),
                !.estimatedSpeed = Some(speed),
                !.laneEvent = Some(laneStatus)]

\* (mutant) a lane event the detection arrives with is kept
assignToDetectionKeepLane(det, id, speed, laneStatus) ==
    [det EXCEPT !.trackId = Some(id),
                !.estimatedSpeed = Some(speed),
                !.laneEvent = IF @ = undefined THEN Some(laneStatus) ELSE @]

\* det.trackId = ...; det.estimatedSpeed = ...; det.laneEvent = ...
assignToDetection(det, id, speed, laneStatus) ==
    [det EXCEPT !.trackId = Some(id),
                !.estimatedSpeed = Some(speed),
                !.laneEvent = Some(laneStatus)]

\* (mutant) the speed is divided by the update cycles since the last match
applyMatchPerCycle(st, t, valid, bestMatchIndex) ==
    LET track == st.tracks[t]
        inList == bestMatchIndex + 1 \in DOMAIN valid
        pos == valid[bestMatchIndex + 1]
        match == st.dets[pos]
        newCentroid == getCentroid(match.box_2d)
        deltaY == newCentroid[2] - track.centroid[2]
        speed == speedOf(track.centroid[2], newCentroid[2]) \div track.missingFrames
        history == pushHistory(track.history, newCentroid)
        start == Len(history) - historyDepth(Len(history)) + 1
        laneStatus ==
            IF Len(history) >= 2
              THEN IF lateralDisplacementExceeds(history[start][1], newCentroid[1])
                     THEN "Lane Change" ELSE "Stable"
              ELSE track.laneStatus
        unmatched == claimDetection(st.unmatched, bestMatchIndex)
    IN  IF ~inList
          THEN [st EXCEPT !.unmatched = unmatched, !.threw = TRUE]
        ELSE IF Len(history) >= 2 /\ start \notin DOMAIN history
          THEN [st EXCEPT !.unmatched = unmatched, !.threw = TRUE,
                          !.tracks[t] = [track EXCEPT !.missingFrames = 0,
                                                      !.box = match.box_2d,
                                                      !.dy = deltaY,
                                                      !.speed = speed,
                                                      !.history = history]]
        ELSE [st EXCEPT
                !.unmatched = unmatched,
                !.matched = @ \cup {<<track.id, pos>>},
                !.tracks[t] = [track EXCEPT !.missingFrames = 0,
                                            !.box = match.box_2d,
                                            !.dy = deltaY,
                                            !.speed = speed,
                                            !.history = history,
                                            !.laneStatus = laneStatus,
                                            !.centroid = newCentroid],
                !.dets[pos] = assignToDetection(match, track.id, speed, laneStatus)]

\* The body of "MATCH FOUND" for the track at store position t and the valid
\* detection bestMatchIndex.  st carries the tracks, the detections (mutated
\* in place by the code), the unmatched set, the matches so far and whether
\* the call has thrown.  Reading an element that does not exist and using it
\* is a TypeError, which ends the call where it happens.
applyMatch(st, t, valid, bestMatchIndex) ==
    LET track == st.tracks[t]
        inList == bestMatchIndex + 1 \in DOMAIN valid
        pos == valid[bestMatchIndex + 1]
        match == st.dets[pos]
        newCentroid == getCentroid(match.box_2d)
        deltaY == newCentroid[2] - track.centroid[2]
        speed == speedOf(track.centroid[2], newCentroid[2])
        history == pushHistory(track.history, newCentroid)
        start == Len(history) - historyDepth(Len(history)) + 1
        laneStatus ==
            IF Len(history) >= 2
              THEN IF lateralDisplacementExceeds(history[start][1], newCentroid[1])
                     THEN "Lane Change" ELSE "Stable"
              ELSE track.laneStatus
        unmatched == claimDetection(st.unmatched, bestMatchIndex)
    IN  IF ~inList
          THEN [st EXCEPT !.unmatched = unmatched, !.threw = TRUE]
        ELSE IF Len(history) >= 2 /\ start \notin DOMAIN history
          THEN [st EXCEPT !.unmatched = unmatched, !.threw = TRUE,
                          !.tracks[t] = [track EXCEPT !.missingFrames = 0,
                                                      !.box = match.box_2d,
                                                      !.dy = deltaY,
                                                      !.speed = speed,
                                                      !.history = history]]
        ELSE [st EXCEPT
                !.unmatched = unmatched,
                !.matched = @ \cup {<<track.id, pos>>},
                !.tracks[t] = [track EXCEPT !.missingFrames = 0,
                                            !.box = match.box_2d,
                                            !.dy = deltaY,
                                            !.speed = speed,
                                            !.history = history,
                                            !.laneStatus = laneStatus,
                                            !.centroid = newCentroid],
                !.dets[pos] = assignToDetection(match, track.id, speed, laneStatus)]

\* this.tracks.forEach(track => { ... }): the matching loop, in store order.
RECURSIVE matchTracks(_, _, _)
matchTracks(st, t, valid) ==
    IF t > Len(st.tracks) \/ st.threw THEN st
    ELSE
      LET best == scanDetections(st.tracks[t], st.dets, valid, st.unmatched, 0,
                                 [index |-> -1, iou |-> <<0, 1>>])
      IN  matchTracks(IF best.index # -1
                        THEN applyMatch(st, t, valid, best.index)
                        ELSE st,
                      t + 1, valid)


\* (mutant) the creation time is not recorded
newTrackNoTime(id, det, time) ==
    [id |-> id,
     class |-> det.object,
     box |-> det.box_2d,
     centroid |-> getCentroid(det.box_2d),
     history |-> <<getCentroid(det.box_2d)>>,
     missingFrames |-> 0,
     speed |-> 0,
     dy |-> 0,
     laneStatus |-> "Stable",
     createdAt |-> 0]

\* (mutant) every new track is given the id 1
newTrackFirstId(id, det, time) ==
    [id |-> 1,
     class |-> det.object,
     box |-> det.box_2d,
     centroid |-> getCentroid(det.box_2d),
     history |-> <<getCentroid(det.box_2d)>>,
     missingFrames |-> 0,
     speed |-> 0,
     dy |-> 0,
     laneStatus |-> "Stable",
     createdAt |-> time]

\* (mutant) a new track that already counts one missed frame
newTrackAged(id, det, time) ==
    [id |-> id,
     class |-> det.object,
     box |-> det.box_2d,
     centroid |-> getCentroid(det.box_2d),
     history |-> <<getCentroid(det.box_2d)>>,
     missingFrames |-> 1,
     speed |-> 0,
     dy |-> 0,
     laneStatus |-> "Stable",
     createdAt |-> time]

\* The object literal of "Create New Tracks".
newTrack(id, det, time) ==
    [id |-> id,
     class |-> det.object,
     box |-> det.box_2d,
     centroid |-> getCentroid(det.box_2d),
     history |-> <<getCentroid(det.box_2d)>>,
     missingFrames |-> 0,
     speed |-> 0,
     dy |-> 0,
     laneStatus |-> "Stable",
     createdAt |-> time]

\* (mutant) the counter is not advanced
takeIdReuse(n) == [id |-> n, next |-> n]

\* id: this.nextId++ : the id taken, and the counter afterwards.
takeId(n) == [id |-> n, next |-> n + 1]

\* (mutant) no track is created
createTracksNone(st, index, valid, time) == st

\* unmatchedDetections.forEach(index => { ... }).  A Set is walked in
\* insertion order, here ascending index; deleting members keeps the order.
RECURSIVE createTracks(_, _, _, _)
createTracks(st, index, valid, time) ==
    IF index >= Len(valid) \/ st.threw THEN st
    ELSE IF index \notin st.unmatched THEN createTracks(st, index + 1, valid, time)
    ELSE
      LET pos == valid[index + 1]
          det == st.dets[pos]
          taken == takeId(st.nextId)
          track == newTrack(taken.id, det, time)
      IN  createTracks(
            IF det.box_2d = undefined THEN st
            ELSE [st EXCEPT
                    !.nextId = taken.next,
                    !.tracks = Append(@, track),
                    !.created = Append(@, <<track.id, pos>>),
                    !.dets[pos] = assignToDetection(det, track.id, 0, "Stable")],
            index + 1, valid, time)

\* (mutant) tracks not seen in this call are counted too
activeMovingTracksStale(ts) == SelectSeq(ts, LAMBDA t : isMoving(t.dy))

\* tracks.filter(t => t.missingFrames === 0 && Math.abs(t.dy) > 0.001)
activeMovingTracks(ts) ==
    SelectSeq(ts, LAMBDA t : t.missingFrames = 0 /\ isMoving(t.dy))

RECURSIVE sumDy(_, _)
sumDy(ts, i) == IF i > Len(ts) THEN 0 ELSE ts[i].dy + sumDy(ts, i + 1)

\* dominantDy as the quotient <<totalDy, count>>; 0 when no track is moving.
dominantDy(ts) ==
    LET moving == activeMovingTracks(ts)
    IN  IF Len(moving) > 0 THEN <<sumDy(moving, 1), Len(moving)>> ELSE <<0, 1>>

\* this.tracks.find(t => t.id === id): the store position, 0 when not found.
findTrack(ts, id) ==
    IF \E i \in DOMAIN ts : ts[i].id = id
      THEN CHOOSE i \in DOMAIN ts : ts[i].id = id /\ \A j \in 1..(i - 1) : ts[j].id # id
      ELSE 0

\* (mutant) a track at the limit counts as speeding
isSpeedingAtLimit(track) == track.speed >= SPEED_LIMIT

\* track.speed > this.SPEED_LIMIT
isSpeeding(track) == track.speed > SPEED_LIMIT

\* (mutant) the tracks moving with the dominant flow are the wrong-way ones
isWrongWayWithFlow(track, dominant) ==
    /\ Abs(dominant[1]) > 10 * dominant[2]
    /\ isSignificant(track.dy)
    /\ sign(dominant[1]) = sign(track.dy)

\* (mutant) the track's own velocity is not tested
isWrongWayAnySpeed(track, dominant) ==
    /\ Abs(dominant[1]) > 10 * dominant[2]
    /\ sign(dominant[1]) # sign(track.dy)

\* Math.abs(dominantDy) > 0.005 && Math.abs(track.dy) > 0.005 &&
\* Math.sign(dominantDy) !== Math.sign(track.dy)
isWrongWay(track, dominant) ==
    /\ Abs(dominant[1]) > 10 * dominant[2]
    /\ isSignificant(track.dy)
    /\ sign(dominant[1]) # sign(track.dy)

\* (mutant) the flags are assigned from the checks, true or false
flagDetectionAssigned(det, ts, dominant) ==
    IF det.trackId = undefined \/ det.trackId = Some(0) THEN det
    ELSE
      LET i == findTrack(ts, det.trackId[1])
      IN  IF i = 0 THEN det
          ELSE [det EXCEPT
                  !.isSpeeding = Some(isSpeeding(ts[i])),
                  !.isWrongWay = Some(isWrongWay(ts[i], dominant))]

\* validDetections.forEach(det => { ... }): the flags of one detection.
flagDetection(det, ts, dominant) ==
    IF det.trackId = undefined \/ det.trackId = Some(0) THEN det
    ELSE
      LET i == findTrack(ts, det.trackId[1])
      IN  IF i = 0 THEN det
          ELSE [det EXCEPT
                  !.isSpeeding = IF isSpeeding(ts[i]) THEN Some(TRUE) ELSE @,
                  !.isWrongWay = IF isWrongWay(ts[i], dominant) THEN Some(TRUE) ELSE @]

RECURSIVE flagDetections(_, _, _, _)
flagDetections(dets, valid, ts, dominant) ==
    IF valid = <<>> THEN dets
    ELSE flagDetections(
           [dets EXCEPT ![Head(valid)] = flagDetection(@, ts, dominant)],
           Tail(valid), ts, dominant)

\* (mutant) a track is kept one call longer
survivesLonger(t) == t.missingFrames <= maxMissingFrames + 1

\* (mutant) the comparison is strict
survivesStrict(t) == t.missingFrames < maxMissingFrames

\* t => t.missingFrames <= this.maxMissingFrames
survives(t) == t.missingFrames <= maxMissingFrames

\* (mutant) the filtered list is returned
resultValidOnly(dets, valid) == [i \in DOMAIN valid |-> dets[valid[i]]]

\* return detections
result(dets, valid) == dets

\* update(detections, timestamp) from the tracker state (ts, next): the state
\* afterwards, the list returned, and what the call did.
update(ts, next, dets, time) ==
    LET valid == validDetections(dets)
        s0 == [tracks |-> [i \in DOMAIN ts |-> predict(ts[i])],
               nextId |-> next,
               dets |-> dets,
               unmatched |-> {i - 1 : i \in DOMAIN valid},
               matched |-> {},
               created |-> <<>>,
               threw |-> FALSE]
        s1 == matchTracks(s0, 1, valid)
        s2 == createTracks(s1, 0, valid, time)
        flagged == flagDetections(s2.dets, valid, s2.tracks, dominantDy(s2.tracks))
    IN  IF s2.threw
          THEN [tracks |-> s2.tracks, nextId |-> s2.nextId, returned |-> <<>>,
                matched |-> s2.matched, created |-> s2.created, threw |-> TRUE,
                removed |-> {}]
          ELSE [tracks |-> SelectSeq(s2.tracks, survives),
                nextId |-> s2.nextId,
                returned |-> result(flagged, valid),
                matched |-> s2.matched,
                created |-> s2.created,
                threw |-> FALSE,
                removed |-> {[id |-> s2.tracks[i].id, box |-> s2.tracks[i].box] :
                               i \in {j \in DOMAIN s2.tracks : ~survives(s2.tracks[j])}}]

\* (mutant) every stored track is counted
getActiveTracksCountAll(ts) == Len(ts)

\* getActiveTracksCount()
getActiveTracksCount(ts) == Len(SelectSeq(ts, LAMBDA t : t.missingFrames = 0))


-----------------------------------------------------------------------------
(* The inputs explored *)

MaxId == 4        \* update() is explored while the ids stay within 1..MaxId
MaxCalls == 3     \* Spec: update() calls in a run
MaxScenes == 3    \* SpecAging: scenes in a run
MaxMotionId == 7  \* SpecMotion: the ids stay within 1..MaxMotionId
MaxClips == 2     \* SpecMotion: clips in a run

\* A DetectionItem as the analysis service delivers it.
Det(object, type, box) ==
    [object |-> object, type |-> type, box_2d |-> box,
     trackId |-> undefined, estimatedSpeed |-> undefined, laneEvent |-> undefined,
     isSpeeding |-> undefined, isWrongWay |-> undefined]

BoxA == <<400, 400, 500, 500>>
BoxA2 == <<430, 400, 530, 500>>     \* IoU 7/13 with BoxA
BoxB == <<460, 400, 560, 500>>      \* IoU 1/4 with BoxA, 7/13 with BoxA2
BoxF == <<100, 100, 200, 200>>      \* apart from all the others
BoxZ == <<400, 400, 400, 500>>      \* zero area
BoxN == <<500, 400, 400, 500>>      \* negative area (ymax < ymin)

vA == Det("car", "vehicle", BoxA)
vA2 == Det("car", "vehicle", BoxA2)
vB == Det("truck", "vehicle", BoxB)
vF == Det("bus", "vehicle", BoxF)
vZ == Det("car", "vehicle", BoxZ)
vN == Det("car", "vehicle", BoxN)
vNoBox == Det("car", "vehicle", undefined)
pA == Det("person", "pedestrian", BoxA)
\* Items that arrive with tracking fields already set.
pTagged == [pA EXCEPT !.trackId = Some(2), !.estimatedSpeed = Some(90),
                      !.laneEvent = Some("Merging"), !.isSpeeding = Some(TRUE)]
vTagged == [vB EXCEPT !.trackId = Some(3), !.laneEvent = Some("Merging"),
                      !.isSpeeding = Some(TRUE), !.isWrongWay = Some(TRUE)]

Frames ==
    {<<>>, <<vA>>, <<vA2>>, <<vB>>, <<vA, vA2>>, <<vA2, vA>>, <<vA, vA>>,
     <<pA, vA2>>, <<vA, pTagged>>, <<vTagged>>, <<vNoBox, vF>>,
     <<vZ, vN, pA, vNoBox>>}

AgingFrames == {<<>>, <<vA2>>, <<vA, vA2>>, <<vZ>>}
RunLengths == {1, 50, 51}
\* The analysis result of the k-th scene carries the timestamp 1000 * k.
frameTime(k) == 1000 * k

\* Moving traffic.  Six lanes side by side, 100 wide and 50 apart, so that a
\* vehicle overlaps only the boxes of its own lane; lane 3 is the column of
\* BoxA.  A vehicle is a box 100 high at a given ymin.
LaneBox(k, ymin) == <<ymin, 150 * k - 50, ymin + 100, 150 * k + 50>>
Car(k, ymin) == Det("car", "vehicle", LaneBox(k, ymin))
Row(ymins) == [k \in DOMAIN ymins |-> Car(k, ymins[k])]

\* Six vehicles abreast, and where the next frame finds them.
FlowStart == Row(<<400, 400, 400, 400, 400, 400>>)
FlowOneAgainst == Row(<<421, 421, 421, 421, 421, 379>>)   \* five down, one up
FlowAllDown == Row(<<421, 421, 421, 421, 421, 421>>)
FlowSlowAgainst == Row(<<421, 421, 421, 421, 421, 397>>)  \* the sixth creeps up
FlowBalanced == Row(<<421, 421, 421, 379, 379, 379>>)     \* no dominant flow

\* Vehicles of lanes 3 and 4 after a jump down from ymin 400: centroid y
\* 0.45 -> 0.5035 is speed 80, 0.45 -> 0.5045 is speed 81.
Car80 == Det("car", "vehicle", <<453, 400, 554, 500>>)
Car81 == Det("car", "vehicle", <<454, 550, 555, 650>>)
Car80Tagged == [Car80 EXCEPT !.isSpeeding = Some(TRUE)]

\* One vehicle driving down lane 3, 0.011 of the frame height per frame.
Drive(n) == [i \in 1..n |-> <<Car(3, 400 + 11 * (i - 1))>>]
DriveFrames == 13

\* One vehicle drifting to the right, 0.02 of the frame width per frame for
\* three frames, and then keeping its line.
Swerving(dx) == Det("car", "vehicle", <<400, 400 + dx, 500, 500 + dx>>)
Swerve ==
    <<<<Swerving(0)>>, <<Swerving(20)>>, <<Swerving(40)>>, <<Swerving(60)>>,
      <<Swerving(60)>>, <<Swerving(60)>>, <<Swerving(60)>>>>

Clips ==
    {<<FlowStart, FlowOneAgainst>>, <<FlowStart, FlowAllDown>>,
     <<FlowStart, FlowSlowAgainst>>, <<FlowStart, FlowBalanced>>,
     <<<<vA, Car(4, 400)>>, <<Car80, Car81>>>>, <<<<vA>>, <<Car80Tagged>>>>,
     <<<<vA>>, <<vB>>>>, <<<<vA>>, <<vA2>>, <<>>>>,
     Drive(DriveFrames), Swerve}

\* Boxes for calculateIoU() on its own: every [ymin, xmin, ymax, xmax] over a
\* few coordinates of 0..1000, the ill-formed ones (ymax < ymin or
\* xmax < xmin) and those of no area included.
\* The application: uploads, camera starts and simulation starts explored,
\* and frames per loop (samples of a simulation, files of a batch, frames
\* captured from one camera stream; a video has frames at 0..VideoDuration).
MaxStarts == 2
MaxFrames == 2
VideoDuration == MaxFrames - 1

Coords == {0, 300, 700, 1000}
Boxes == {<<ymin, xmin, ymax, xmax>> : ymin \in Coords, xmin \in Coords,
                                       ymax \in Coords, xmax \in Coords}

-----------------------------------------------------------------------------
(* The tracker's operations *)

ids(ts) == {ts[i].id : i \in DOMAIN ts}
firsts(pairs) == [i \in DOMAIN pairs |-> pairs[i][1]]
range(f) == {f[i] : i \in DOMAIN f}

InitTracker ==
    /\ tracks = <<>>
    /\ nextId = 1
    /\ op = "new"
    /\ detections = <<>>
    /\ timestamp = 0
    /\ returned = <<>>
    /\ count = 0
    /\ threw = FALSE
    /\ prev = <<>>
    /\ matched = {}
    /\ created = <<>>
    /\ issued = <<>>
    /\ evicted = {}
    /\ idle = {}
    /\ scenes = 0
    /\ scene = <<>>
    /\ left = 0

\* The application when it is mounted: nothing shown, no mode active.
InitApp ==
    /\ status = "IDLE"
    /\ uiResult = undefined
    /\ isCameraActive = FALSE
    /\ cameraStream = undefined
    /\ processingVideo = FALSE
    /\ simulationRef = FALSE
    /\ videoProcessingRef = FALSE
    /\ videoSrc = "none"
    /\ seeking = FALSE
    /\ tasks = {}
    /\ sessions = 0
    /\ captured = 0
    /\ unreset = {}
    /\ caller = undefined
    /\ stopped = FALSE

\* The Gemini client before analyzeTrafficImage() is called
InitClient ==
    client = [pc |-> "idle", attempt |-> 0, lastError |-> undefined,
              waits |-> <<>>, value |-> undefined]

\* A new tracker; calculateIoU() has not been called from outside update().
Init ==
    /\ InitTracker
    /\ InitApp
    /\ InitClient
    /\ argA = <<0, 0, 0, 0>>
    /\ argB = <<0, 0, 0, 0>>
    /\ iouResult = <<0, 1>>

\* tracker.update(dets, time), explored while the ids stay within 1..maxId
UpdateWithin(dets, time, maxId) ==
    LET r == update(tracks, nextId, dets, time)
        fresh == range(firsts(r.created))
        hit == {m[1] : m \in r.matched}
    IN  /\ r.nextId <= maxId + 1
        /\ tracks' = r.tracks
        /\ nextId' = r.nextId
        /\ op' = "update"
        /\ detections' = dets
        /\ timestamp' = time
        /\ returned' = r.returned
        /\ threw' = r.threw
        /\ prev' = tracks
        /\ matched' = r.matched
        /\ created' = r.created
        /\ issued' = issued \o firsts(r.created)
        /\ evicted' = evicted \cup r.removed
        /\ idle' = {<<id, 0>> : id \in hit \cup fresh}
                      \cup {<<e[1], e[2] + 1>> :
                              e \in {x \in idle : x[1] \in ids(tracks) \ hit}}
        /\ UNCHANGED <<count, argA, argB, iouResult>>

\* tracker.update(dets, time)
Update(dets, time) == UpdateWithin(dets, time, MaxId)

\* (mutant) reset() clears the store and keeps the counter
ResetKeepsCounter ==
    /\ tracks' = <<>>
    /\ nextId' = nextId
    /\ op' = "reset"
    /\ prev' = tracks
    /\ issued' = <<>>
    /\ evicted' = {}
    /\ idle' = {}
    /\ detections' = <<>>
    /\ timestamp' = 0
    /\ returned' = <<>>
    /\ count' = 0
    /\ threw' = FALSE
    /\ matched' = {}
    /\ created' = <<>>
    /\ UNCHANGED <<scenes, scene, left, argA, argB, iouResult>>

\* tracker.reset()
Reset ==
    /\ tracks' = <<>>
    /\ nextId' = 1
    /\ op' = "reset"
    /\ prev' = tracks
    /\ issued' = <<>>
    /\ evicted' = {}
    /\ idle' = {}
    /\ detections' = <<>>
    /\ timestamp' = 0
    /\ returned' = <<>>
    /\ count' = 0
    /\ threw' = FALSE
    /\ matched' = {}
    /\ created' = <<>>
    /\ UNCHANGED <<scenes, scene, left, argA, argB, iouResult>>

\* tracker.getActiveTracksCount()
GetActiveTracksCount ==
    /\ count' = getActiveTracksCount(tracks)
    /\ op' = "getActiveTracksCount"
    /\ prev' = tracks
    /\ detections' = <<>>
    /\ timestamp' = 0
    /\ returned' = <<>>
    /\ threw' = FALSE
    /\ matched' = {}
    /\ created' = <<>>
    /\ UNCHANGED <<tracks, nextId, issued, evicted, idle, scenes, scene, left,
                   argA, argB, iouResult>>

\* One analysed frame is handed to the tracker.
Frame ==
    \E f \in Frames :
        /\ scenes < MaxCalls
        /\ Update(f, frameTime(scenes + 1))
        /\ scenes' = scenes + 1
        /\ UNCHANGED <<scene, left>>
        /\ UNCHANGED <<appVars, clientVars>>

Next ==
    \/ Frame
    \/ (Reset /\ UNCHANGED <<appVars, clientVars>>)
    \/ (GetActiveTracksCount /\ UNCHANGED <<appVars, clientVars>>)

Spec == Init /\ [][Next]_vars

\* The frame source shows a new scene, which it keeps for n frames.
NewScene ==
    \E f \in AgingFrames, n \in RunLengths :
        /\ left = 0
        /\ scenes < MaxScenes
        /\ Update(f, frameTime(scenes + 1))
        /\ scenes' = scenes + 1
        /\ scene' = f
        /\ left' = n - 1
        /\ UNCHANGED <<appVars, clientVars>>

\* The scene has not changed: the same detections arrive again.
HoldScene ==
    /\ left > 0
    /\ Update(scene, frameTime(scenes))
    /\ left' = left - 1
    /\ UNCHANGED <<scenes, scene>>
    /\ UNCHANGED <<appVars, clientVars>>

\* Between two scenes the caller may reset the tracker or read the count.
NextAging ==
    \/ NewScene
    \/ HoldScene
    \/ (left = 0 /\ Reset /\ UNCHANGED <<appVars, clientVars>>)
    \/ (left = 0 /\ GetActiveTracksCount /\ UNCHANGED <<appVars, clientVars>>)

SpecAging == Init /\ [][NextAging]_vars

\* The frame source starts a clip: a sequence of frames analysed one by one.
StartClip ==
    \E c \in Clips :
        /\ left = 0
        /\ scenes < MaxClips
        /\ UpdateWithin(c[1], frameTime(scenes + 1), MaxMotionId)
        /\ scenes' = scenes + 1
        /\ scene' = c
        /\ left' = Len(c) - 1
        /\ UNCHANGED <<appVars, clientVars>>

\* The next frame of the clip.
PlayClip ==
    /\ left > 0
    /\ UpdateWithin(scene[Len(scene) - left + 1], frameTime(scenes), MaxMotionId)
    /\ left' = left - 1
    /\ UNCHANGED <<scenes, scene>>
    /\ UNCHANGED <<appVars, clientVars>>

NextMotion ==
    \/ StartClip
    \/ PlayClip
    \/ (left = 0 /\ Reset /\ UNCHANGED <<appVars, clientVars>>)
    \/ (left = 0 /\ GetActiveTracksCount /\ UNCHANGED <<appVars, clientVars>>)

SpecMotion == Init /\ [][NextMotion]_vars

\* calculateIoU(argA, argB) on its own: any two boxes, well-formed or not.
InitIoU ==
    /\ InitTracker
    /\ InitApp
    /\ InitClient
    /\ argA \in Boxes
    /\ argB \in Boxes
    /\ iouResult = <<0, 1>>

CalculateIoU ==
    /\ op = "new"
    /\ iouResult' = calculateIoU(argA, argB)
    /\ op' = "calculateIoU"
    /\ UNCHANGED <<tracks, nextId, detections, timestamp, returned, count, threw,
                   prev, matched, created, issued, evicted, idle, scenes, scene,
                   left, argA, argB>>
    /\ UNCHANGED <<appVars, clientVars>>

NextIoU == CalculateIoU

SpecIoU == InitIoU /\ [][NextIoU]_vars

-----------------------------------------------------------------------------
(* The application around the tracker (src/App.tsx)                        *)
(*                                                                         *)
(* One step is one run of JavaScript between two awaits: an event handler, *)
(* or the code that follows a settled promise, a timer, an animation frame *)
(* or a media event.  React state set in a step is what the next step      *)
(* reads; state that only the rendering reads (image, error, progress,     *)
(* isSimulating, the queue shown) is left out.  The camera effect          *)
(* (App.tsx 424-461) is re-run whenever status or isCameraActive changes:  *)
(* the loop of the previous run is unmounted, so the frame it is awaiting  *)
(* is followed by a timer that returns at once, and the loop of the new    *)
(* run captures a frame as soon as isCameraActive holds, status is IDLE,   *)
(* COMPLETE or ERROR, and the video element yields a frame.  Two handlers   *)
(* that start no loop are not modelled: handleLoadHistoryItem (it calls    *)
(* stopAllModes() and shows a stored result) and the Analyze button (it    *)
(* analyses the image shown once more).                                    *)

\* What the analysis service returns for a frame.
AppFrames == {<<vA>>}

\* An await of a loop, of processImage() called by it, or of a handler:
\* kind is the code awaiting, session the start it belongs to, pc the await,
\* i the loop's index (sample, video time, file, captured frame), n its
\* limit, began the number of starts when the loop began its current frame.
Task(kind, session, pc, i, n, began) ==
    [kind |-> kind, session |-> session, pc |-> pc, i |-> i, n |-> n,
     began |-> began]

\* The tracking context of a task: the session, and for a batch the file.
contextOf(t) == <<t.session, IF t.kind = "batch" THEN t.i ELSE 0>>

Swap(t, u) == (tasks \ {t}) \cup {u}

\* trackerRef.current.reset()
resetTracker ==
    /\ Reset
    /\ unreset' = {}
    /\ caller' = undefined

\* stopCamera()
stopCamera ==
    /\ isCameraActive' = FALSE
    /\ cameraStream' = undefined

\* stopAllModes(), apart from the flags a handler sets again after calling it
stopAllModes ==
    /\ stopCamera
    /\ uiResult' = undefined
    /\ status' = "IDLE"
    /\ resetTracker

\* The Reset and Stop buttons, and Home: stopAllModes()
StopAllModes ==
    /\ stopAllModes
    /\ simulationRef' = FALSE
    /\ processingVideo' = FALSE
    /\ videoProcessingRef' = FALSE
    /\ videoSrc' = "none"
    /\ seeking' = FALSE
    /\ UNCHANGED <<tasks, sessions, captured>>
    /\ stopped' = TRUE
    /\ UNCHANGED clientVars

\* startSimulation() up to its first await.  Its two reset() calls leave
\* the tracker as one does.
StartSimulation ==
    /\ sessions < MaxStarts
    /\ sessions' = sessions + 1
    /\ stopAllModes
    /\ simulationRef' = TRUE
    /\ processingVideo' = FALSE
    /\ videoProcessingRef' = FALSE
    /\ videoSrc' = "none"
    /\ seeking' = FALSE
    /\ tasks' = tasks \cup {Task("simulation", sessions + 1, "fetch", 0,
                                 MaxFrames, sessions + 1)}
    /\ UNCHANGED captured
    /\ stopped' = FALSE
    /\ UNCHANGED clientVars

\* The simulation loop goes to its next iteration: i++, the loop test, the
\* test of simulationRef, and either the next fetch or the end of the loop.
simulationNext(t) ==
    tasks' = IF t.i + 1 < t.n /\ simulationRef
               THEN Swap(t, [t EXCEPT !.pc = "fetch", !.i = @ + 1,
                                      !.began = sessions])
               ELSE tasks \ {t}

\* The sample has been fetched and read, and processImage(..., 'single') is
\* called and runs up to its first await; or the fetch has failed.
SimulationFetched(t) ==
    /\ t.kind = "simulation" /\ t.pc = "fetch"
    /\ \E ok \in BOOLEAN :
         IF ok
           THEN /\ status' = "VISION_SCANNING"
                /\ tasks' = Swap(t, [t EXCEPT !.pc = "delay1"])
           ELSE /\ simulationNext(t)
                /\ UNCHANGED status
    /\ UNCHANGED <<uiResult, isCameraActive, cameraStream, processingVideo,
                   simulationRef, videoProcessingRef, videoSrc, seeking,
                   sessions, captured, unreset, caller>>
    /\ UNCHANGED trackerVars
    /\ UNCHANGED stopped
    /\ UNCHANGED clientVars

\* processImage, mode 'single': the first 500 ms are over
ProcessImageDelay1(t) ==
    /\ t.pc = "delay1"
    /\ status' = "DATA_ANALYSIS"
    /\ tasks' = Swap(t, [t EXCEPT !.pc = "analysis"])
    /\ UNCHANGED <<uiResult, isCameraActive, cameraStream, processingVideo,
                   simulationRef, videoProcessingRef, videoSrc, seeking,
                   sessions, captured, unreset, caller>>
    /\ UNCHANGED trackerVars
    /\ UNCHANGED stopped
    /\ UNCHANGED clientVars

\* Whether the frame of t is fed to the tracker after a later frame of the
\* same camera stream.
outOfOrder(t) ==
    /\ t.kind = "camera"
    /\ caller # undefined
    /\ caller[1].kind = "camera"
    /\ caller[1].session = t.session
    /\ caller[1].i > t.i

\* processImage: the analysis has arrived.  tracker.update(), and the rest
\* of processImage up to its next await or its return; then the caller.
ProcessImageAnalysed(t) ==
    /\ t.pc = "analysis"
    /\ \E f \in AppFrames : Update(f, frameTime(t.session))
    /\ caller' = Some([kind |-> t.kind, session |-> t.session, i |-> t.i,
                       began |-> t.began,
                       clean |-> contextOf(t) \notin unreset,
                       late |-> outOfOrder(t)])
    /\ CASE t.kind \in {"simulation", "batch"} ->
              /\ status' = "REPORT_GENERATION"
              /\ tasks' = Swap(t, [t EXCEPT !.pc = "delay2"])
              /\ UNCHANGED uiResult
         [] t.kind = "video" ->
              /\ uiResult' = Some(contextOf(t))
              /\ status' = "COMPLETE"
              /\ tasks' = Swap(t, [t EXCEPT !.pc = "raf", !.i = @ + 1])
         [] t.kind = "camera" ->
              /\ uiResult' = Some(contextOf(t))
              /\ status' = "COMPLETE"
              /\ tasks' = tasks \ {t}
    /\ UNCHANGED <<isCameraActive, cameraStream, processingVideo,
                   simulationRef, videoProcessingRef, videoSrc, seeking,
                   sessions, captured, unreset, scenes, scene, left>>
    /\ UNCHANGED stopped
    /\ UNCHANGED clientVars

\* How a request to the analysis server can fail: the response is not ok
\* (its status text is in the error), or fetch() itself rejects.
Failures == {"429", "500", "fetch failed"}

statusText(failure) ==
    IF failure = "429" THEN "Too Many Requests" ELSE "Internal Server Error"

\* An error message is the sequence of its parts; includes(message, part)
\* is message.includes(part) for the parts the code looks for.
includes(message, part) == \E k \in DOMAIN message : message[k] = part

\* The message of the error analyzeTrafficImage() throws: whatever is
\* thrown in its try block, the catch throws a new error with a fixed text.
analyzeTrafficImageError(failure) ==
    LET err == IF failure = "fetch failed"
                 THEN <<"fetch failed">>
                 ELSE <<"Analysis failed: ", statusText(failure)>>
    IN  <<"Failed to connect to analysis server.">>

\* The test the loops make on the message of a caught error
rateLimited(message) ==
    includes(message, "Rate Limit") \/ includes(message, "429")

\* processImage: the analysis has failed.  The catch of processImage, then
\* the catch of its caller.
ProcessImageFailedWith(t, failure) ==
    /\ t.pc = "analysis"
    /\ CASE t.kind = "simulation" ->
              /\ status' = "ERROR"
              /\ simulationNext(t)
         [] t.kind = "batch" ->
              /\ status' = "ERROR"
              /\ tasks' = tasks \ {t}
         [] t.kind = "video" ->
              /\ tasks' = Swap(t, IF rateLimited(analyzeTrafficImageError(failure))
                                    THEN [t EXCEPT !.pc = "backoff"]
                                    ELSE [t EXCEPT !.pc = "raf", !.i = @ + 1])
              /\ UNCHANGED status
         [] t.kind = "camera" ->
              /\ tasks' = Swap(t, [t EXCEPT !.pc =
                                     IF rateLimited(analyzeTrafficImageError(failure))
                                       THEN "timer10s" ELSE "timer4s"])
              /\ UNCHANGED status
    /\ UNCHANGED <<uiResult, isCameraActive, cameraStream, processingVideo,
                   simulationRef, videoProcessingRef, videoSrc, seeking,
                   sessions, captured, unreset, caller>>
    /\ UNCHANGED trackerVars
    /\ UNCHANGED stopped
    /\ UNCHANGED clientVars

ProcessImageFailed(t) == \E failure \in Failures : ProcessImageFailedWith(t, failure)

\* processImage, mode 'single': the second 500 ms are over.  setResult,
\* setStatus(COMPLETE), and the caller goes on.
ProcessImageDelay2(t) ==
    /\ t.pc = "delay2"
    /\ uiResult' = Some(contextOf(t))
    /\ status' = "COMPLETE"
    /\ CASE t.kind = "simulation" ->
              IF simulationRef
                THEN tasks' = Swap(t, [t EXCEPT !.pc = "pause"])
                ELSE simulationNext(t)
         [] t.kind = "batch" ->
              tasks' = Swap(t, [t EXCEPT !.pc = "gap"])
    /\ UNCHANGED <<isCameraActive, cameraStream, processingVideo,
                   simulationRef, videoProcessingRef, videoSrc, seeking,
                   sessions, captured, unreset, caller>>
    /\ UNCHANGED trackerVars
    /\ UNCHANGED stopped
    /\ UNCHANGED clientVars

\* The 3 s between two samples are over.
SimulationPaused(t) ==
    /\ t.kind = "simulation" /\ t.pc = "pause"
    /\ simulationNext(t)
    /\ UNCHANGED <<status, uiResult, isCameraActive, cameraStream,
                   processingVideo, simulationRef, videoProcessingRef,
                   videoSrc, seeking, sessions, captured, unreset, caller>>
    /\ UNCHANGED trackerVars
    /\ UNCHANGED stopped
    /\ UNCHANGED clientVars

\* handleUpload() with a video file: stopAllModes(), handleVideoUpload()
UploadVideo ==
    /\ sessions < MaxStarts
    /\ sessions' = sessions + 1
    /\ stopAllModes
    /\ simulationRef' = FALSE
    /\ processingVideo' = TRUE
    /\ videoProcessingRef' = TRUE
    /\ videoSrc' = "loading"
    /\ seeking' = FALSE
    /\ UNCHANGED <<tasks, captured>>
    /\ stopped' = FALSE
    /\ UNCHANGED clientVars

\* video.onloadedmetadata: processVideoSequence() up to its first await
VideoLoaded ==
    /\ videoSrc = "loading"
    /\ videoSrc' = "loaded"
    /\ IF videoProcessingRef
         THEN /\ seeking' = TRUE
              /\ tasks' = tasks \cup {Task("video", sessions, "seek", 0,
                                           VideoDuration, sessions)}
         ELSE UNCHANGED <<seeking, tasks>>
    /\ UNCHANGED <<status, uiResult, isCameraActive, cameraStream,
                   processingVideo, simulationRef, videoProcessingRef,
                   sessions, captured, unreset, caller>>
    /\ UNCHANGED trackerVars
    /\ UNCHANGED stopped
    /\ UNCHANGED clientVars

\* video.onerror
VideoFailed ==
    /\ videoSrc = "loading"
    /\ videoSrc' = "none"
    /\ processingVideo' = FALSE
    /\ UNCHANGED <<status, uiResult, isCameraActive, cameraStream,
                   simulationRef, videoProcessingRef, seeking, tasks,
                   sessions, captured, unreset, caller>>
    /\ UNCHANGED trackerVars
    /\ UNCHANGED stopped
    /\ UNCHANGED clientVars

\* The video element fires 'seeked': every listener registered on it runs,
\* captures the frame and calls processImage(..., 'video') up to its await.
Seeked ==
    /\ seeking
    /\ videoSrc = "loaded"
    /\ seeking' = FALSE
    /\ status' = "DATA_ANALYSIS"
    /\ tasks' = {IF t.kind = "video" /\ t.pc = "seek"
                   THEN [t EXCEPT !.pc = "analysis"] ELSE t : t \in tasks}
    /\ UNCHANGED <<uiResult, isCameraActive, cameraStream, processingVideo,
                   simulationRef, videoProcessingRef, videoSrc, sessions,
                   captured, unreset, caller>>
    /\ UNCHANGED trackerVars
    /\ UNCHANGED stopped
    /\ UNCHANGED clientVars

\* The 5 s after a rate-limit error are over: advance the cursor and ask
\* for an animation frame.  No message of analyzeTrafficImage() passes
\* rateLimited, so no loop is ever in this pause and the step is no part
\* of NextApp.
VideoBackoffOver(t) ==
    /\ t.kind = "video" /\ t.pc = "backoff"
    /\ tasks' = Swap(t, [t EXCEPT !.pc = "raf", !.i = @ + 1])
    /\ UNCHANGED <<status, uiResult, isCameraActive, cameraStream,
                   processingVideo, simulationRef, videoProcessingRef,
                   videoSrc, seeking, sessions, captured, unreset, caller>>
    /\ UNCHANGED trackerVars
    /\ UNCHANGED stopped
    /\ UNCHANGED clientVars

\* (mutant) processNextFrame() that leaves processingVideo set when it stops
ProcessNextFrameKeepsFlag(t) ==
    /\ t.kind = "video" /\ t.pc = "raf"
    /\ IF ~videoProcessingRef \/ (videoSrc = "loaded" /\ t.i > t.n)
         THEN /\ videoProcessingRef' = FALSE
              /\ status' = "COMPLETE"
              /\ tasks' = tasks \ {t}
              /\ UNCHANGED <<seeking, processingVideo>>
         ELSE /\ seeking' = TRUE
              /\ tasks' = Swap(t, [t EXCEPT !.pc = "seek", !.began = sessions])
              /\ UNCHANGED <<processingVideo, videoProcessingRef, status>>
    /\ UNCHANGED <<uiResult, isCameraActive, cameraStream, simulationRef,
                   videoSrc, sessions, captured, unreset, caller>>
    /\ UNCHANGED trackerVars
    /\ UNCHANGED stopped
    /\ UNCHANGED clientVars

\* processNextFrame() up to its await.  video.duration is NaN, and no
\* cursor greater than it, until the metadata are loaded.
ProcessNextFrame(t) ==
    /\ t.kind = "video" /\ t.pc = "raf"
    /\ IF ~videoProcessingRef \/ (videoSrc = "loaded" /\ t.i > t.n)
         THEN /\ processingVideo' = FALSE
              /\ videoProcessingRef' = FALSE
              /\ status' = "COMPLETE"
              /\ tasks' = tasks \ {t}
              /\ UNCHANGED seeking
         ELSE /\ seeking' = TRUE
              /\ tasks' = Swap(t, [t EXCEPT !.pc = "seek", !.began = sessions])
              /\ UNCHANGED <<processingVideo, videoProcessingRef, status>>
    /\ UNCHANGED <<uiResult, isCameraActive, cameraStream, simulationRef,
                   videoSrc, sessions, captured, unreset, caller>>
    /\ UNCHANGED trackerVars
    /\ UNCHANGED stopped
    /\ UNCHANGED clientVars

\* handleUpload() with n image files: stopAllModes(), and
\* processNextInQueue() up to readAsDataURL() of the first file
UploadImages ==
    \E n \in 1..MaxFrames :
        /\ sessions < MaxStarts
        /\ sessions' = sessions + 1
        /\ stopCamera
        /\ uiResult' = undefined
        /\ status' = "IDLE"
        /\ Reset
        /\ caller' = undefined
        /\ unreset' = {<<sessions + 1, 1>>}
        /\ simulationRef' = FALSE
        /\ processingVideo' = FALSE
        /\ videoProcessingRef' = FALSE
        /\ videoSrc' = "none"
        /\ seeking' = FALSE
        /\ tasks' = tasks \cup {Task("batch", sessions + 1, "read", 1, n,
                                     sessions + 1)}
        /\ UNCHANGED captured
        /\ stopped' = FALSE
        /\ UNCHANGED clientVars

\* (mutant) the file is analysed without a reset() of the tracker
FileReadNoReset(t) ==
    /\ t.kind = "batch" /\ t.pc = "read"
    /\ status' = "VISION_SCANNING"
    /\ tasks' = Swap(t, [t EXCEPT !.pc = "delay1"])
    /\ UNCHANGED <<uiResult, isCameraActive, cameraStream, processingVideo,
                   simulationRef, videoProcessingRef, videoSrc, seeking,
                   sessions, captured, unreset, caller>>
    /\ UNCHANGED trackerVars
    /\ UNCHANGED stopped
    /\ UNCHANGED clientVars

\* reader.onloadend: reset(), and processImage(..., 'single') up to its
\* first await
FileRead(t) ==
    /\ t.kind = "batch" /\ t.pc = "read"
    /\ resetTracker
    /\ status' = "VISION_SCANNING"
    /\ tasks' = Swap(t, [t EXCEPT !.pc = "delay1"])
    /\ UNCHANGED <<uiResult, isCameraActive, cameraStream, processingVideo,
                   simulationRef, videoProcessingRef, videoSrc, seeking,
                   sessions, captured>>
    /\ UNCHANGED stopped
    /\ UNCHANGED clientVars

\* The 2 s between two files are over: processNextInQueue(remaining)
ProcessNextInQueue(t) ==
    /\ t.kind = "batch" /\ t.pc = "gap"
    /\ IF t.i = t.n
         THEN /\ tasks' = tasks \ {t}
              /\ UNCHANGED unreset
         ELSE /\ tasks' = Swap(t, [t EXCEPT !.pc = "read", !.i = @ + 1,
                                            !.began = sessions])
              /\ unreset' = unreset \cup {<<t.session, t.i + 1>>}
    /\ UNCHANGED <<status, uiResult, isCameraActive, cameraStream,
                   processingVideo, simulationRef, videoProcessingRef,
                   videoSrc, seeking, sessions, captured, caller>>
    /\ UNCHANGED trackerVars
    /\ UNCHANGED stopped
    /\ UNCHANGED clientVars

\* startCamera() up to its await of getUserMedia()
StartCamera ==
    /\ sessions < MaxStarts
    /\ sessions' = sessions + 1
    /\ stopAllModes
    /\ simulationRef' = FALSE
    /\ processingVideo' = FALSE
    /\ videoProcessingRef' = FALSE
    /\ videoSrc' = "none"
    /\ seeking' = FALSE
    /\ tasks' = tasks \cup {Task("startCamera", sessions + 1, "getUserMedia",
                                 0, 0, sessions + 1)}
    /\ UNCHANGED captured
    /\ stopped' = FALSE
    /\ UNCHANGED clientVars

\* getUserMedia() resolved: the stream is kept and the tracker reset.
CameraGranted(t) ==
    /\ t.kind = "startCamera"
    /\ cameraStream' = Some(t.session)
    /\ isCameraActive' = TRUE
    /\ resetTracker
    /\ captured' = 0
    /\ tasks' = tasks \ {t}
    /\ UNCHANGED <<status, uiResult, processingVideo, simulationRef,
                   videoProcessingRef, videoSrc, seeking, sessions>>
    /\ UNCHANGED stopped
    /\ UNCHANGED clientVars

\* getUserMedia() rejected
CameraDenied(t) ==
    /\ t.kind = "startCamera"
    /\ tasks' = tasks \ {t}
    /\ UNCHANGED <<status, uiResult, isCameraActive, cameraStream,
                   processingVideo, simulationRef, videoProcessingRef,
                   videoSrc, seeking, sessions, captured, unreset, caller>>
    /\ UNCHANGED trackerVars
    /\ UNCHANGED stopped
    /\ UNCHANGED clientVars

\* The camera loop captures a frame and calls processImage(..., 'camera')
\* up to its await.
CameraLoop ==
    /\ isCameraActive
    /\ status \in {"IDLE", "COMPLETE", "ERROR"}
    /\ captured < MaxFrames
    /\ captured' = captured + 1
    /\ status' = "DATA_ANALYSIS"
    /\ tasks' = tasks \cup {Task("camera", cameraStream[1], "analysis",
                                 captured + 1, 0, sessions)}
    /\ UNCHANGED <<uiResult, isCameraActive, cameraStream, processingVideo,
                   simulationRef, videoProcessingRef, videoSrc, seeking,
                   sessions, unreset, caller>>
    /\ UNCHANGED trackerVars
    /\ UNCHANGED stopped
    /\ UNCHANGED clientVars

\* The timer set in the catch of the camera loop fires (10 s after a rate
\* limit, else 4 s).  processImage had changed status before the request
\* was made, so the effect that ran this loop has been cleaned up since:
\* loop() returns at `if (!isMounted) return`.
CameraTimer(t) ==
    /\ t.kind = "camera"
    /\ t.pc \in {"timer4s", "timer10s"}
    /\ tasks' = tasks \ {t}
    /\ UNCHANGED <<status, uiResult, isCameraActive, cameraStream,
                   processingVideo, simulationRef, videoProcessingRef,
                   videoSrc, seeking, sessions, captured, unreset, caller>>
    /\ UNCHANGED trackerVars
    /\ UNCHANGED stopped
    /\ UNCHANGED clientVars

\* handleLocationDiscovery(): the button is shown next to a result
HandleLocationDiscovery ==
    /\ uiResult # undefined
    /\ ~processingVideo
    /\ status' = "DATA_ANALYSIS"
    /\ tasks' = tasks \cup {Task("location", 0, "getCurrentPosition", 0, 0, 0)}
    /\ UNCHANGED <<uiResult, isCameraActive, cameraStream, processingVideo,
                   simulationRef, videoProcessingRef, videoSrc, seeking,
                   sessions, captured, unreset, caller>>
    /\ UNCHANGED trackerVars
    /\ UNCHANGED stopped
    /\ UNCHANGED clientVars

\* The position and its context have arrived (the result keeps its
\* analysis), or the position could not be had.
Located(t) ==
    /\ t.kind = "location"
    /\ \E ok \in BOOLEAN : status' = IF ok THEN "COMPLETE" ELSE "IDLE"
    /\ tasks' = tasks \ {t}
    /\ UNCHANGED <<uiResult, isCameraActive, cameraStream, processingVideo,
                   simulationRef, videoProcessingRef, videoSrc, seeking,
                   sessions, captured, unreset, caller>>
    /\ UNCHANGED trackerVars
    /\ UNCHANGED stopped
    /\ UNCHANGED clientVars

NextApp ==
    \/ StopAllModes
    \/ StartSimulation
    \/ UploadVideo
    \/ UploadImages
    \/ StartCamera
    \/ VideoLoaded
    \/ VideoFailed
    \/ Seeked
    \/ CameraLoop
    \/ HandleLocationDiscovery
    \/ \E t \in tasks : SimulationFetched(t)
    \/ \E t \in tasks : SimulationPaused(t)
    \/ \E t \in tasks : ProcessImageDelay1(t)
    \/ \E t \in tasks : ProcessImageAnalysed(t)
    \/ \E t \in tasks : ProcessImageFailed(t)
    \/ \E t \in tasks : ProcessImageDelay2(t)
    \/ \E t \in tasks : ProcessNextFrame(t)
    \/ \E t \in tasks : FileRead(t)
    \/ \E t \in tasks : ProcessNextInQueue(t)
    \/ \E t \in tasks : CameraGranted(t)
    \/ \E t \in tasks : CameraDenied(t)
    \/ \E t \in tasks : Located(t)
    \/ \E t \in tasks : CameraTimer(t)

SpecApp == Init /\ [][NextApp]_vars

\* The camera alone: the user starts and stops it and asks for the
\* location.  Without the user, a request made settles and a timer set
\* fires; the camera effect runs after every rendering that changed status
\* or isCameraActive, before the next event is handled, so the loop is not
\* passed over whenever the state lets it capture.  What the user does
\* (start, stop, locate, grant or deny the camera) is under no obligation.
Settled == \E t \in tasks : ProcessImageFailed(t) \/ ProcessImageAnalysed(t)

NextCamera ==
    \/ StopAllModes
    \/ StartCamera
    \/ CameraLoop
    \/ HandleLocationDiscovery
    \/ Settled
    \/ \E t \in tasks : CameraGranted(t)
    \/ \E t \in tasks : CameraDenied(t)
    \/ \E t \in tasks : CameraTimer(t)
    \/ \E t \in tasks : Located(t)

\* Video mode alone: the user uploads videos and stops.  Without the user,
\* the metadata load or fail to, a seek begun on a loaded video ends, a
\* request made settles and an animation frame asked for comes.
NextVideo ==
    \/ StopAllModes
    \/ UploadVideo
    \/ VideoLoaded
    \/ VideoFailed
    \/ Seeked
    \/ Settled
    \/ \E t \in tasks : ProcessNextFrame(t)

SpecVideo ==
    /\ Init
    /\ [][NextVideo]_vars
    /\ WF_vars(VideoLoaded \/ VideoFailed)
    /\ WF_vars(Seeked)
    /\ WF_vars(Settled)
    /\ WF_vars(\E t \in tasks : ProcessNextFrame(t))

SpecCamera ==
    /\ Init
    /\ [][NextCamera]_vars
    /\ SF_vars(CameraLoop)
    /\ WF_vars(Settled)
    /\ WF_vars(\E t \in tasks : CameraTimer(t))
    /\ WF_vars(\E t \in tasks : Located(t))


-----------------------------------------------------------------------------
(* The Gemini client (src/unnamed/part_002): analyzeTrafficImage()         *)
(*                                                                         *)
(* client is the call under way: pc is where it stands (idle, request,     *)
(* delay, returned, threw), attempt the loop variable, lastError the       *)
(* message of the error caught last, waits the delays awaited so far in    *)
(* ms, value what the call returned (result) or the message of what it     *)
(* threw (error).                                                          *)
(* An error message is the sequence of its parts, as above.                *)

\* for (let attempt = 1; attempt <= 3; attempt++)
maxAttempts == 3

\* The texts the client looks for in a message, and some other text
Parts == {"401", "403", "API_KEY", "429", "RESOURCE_EXHAUSTED", "Quota",
          "500", "503", "xhr error", "Rpc failed", "fetch failed",
          "Overloaded", "SAFETY", "blocked", "valid JSON", "timeout"}

\* Messages of the errors generateContent() can reject with
SdkErrors == {<<a>> : a \in Parts} \cup {<<a, b>> : a, b \in Parts}

emptyResponse == <<"Empty response received from AI service.">>
parseError == <<"Failed to parse AI response as ", "valid JSON", ".">>

\* What one attempt can end with: the parsed data, or an error thrown in
\* the try block
AttemptResults ==
    {[ok |-> TRUE, message |-> <<>>]}
        \cup {[ok |-> FALSE, message |-> m] :
                 m \in SdkErrors \cup {emptyResponse, parseError}}

isRateLimit(msg) ==
    includes(msg, "429") \/ includes(msg, "RESOURCE_EXHAUSTED")
        \/ includes(msg, "Quota")

isTransient(msg) ==
    includes(msg, "500") \/ includes(msg, "503") \/ includes(msg, "xhr error")
        \/ includes(msg, "fetch failed") \/ includes(msg, "Overloaded")

\* (mutant) the same delay for every kind of error
waitTimeFlat(msg, attempt) == attempt * 1000

waitTime(msg, attempt) ==
    IF isRateLimit(msg) THEN attempt * 5000 ELSE attempt * 1000

\* The message of the error handleGeminiError() throws
handleGeminiError(msg) ==
    IF includes(msg, "401") \/ includes(msg, "403") \/ includes(msg, "API_KEY")
      THEN <<"Authentication Failed: The API Key is missing or invalid.">>
    ELSE IF includes(msg, "429") \/ includes(msg, "RESOURCE_EXHAUSTED")
      THEN <<"Traffic Overload: The AI service is experiencing high demand (",
             "Rate Limit", "). Please wait 30 seconds before retrying.">>
    ELSE IF includes(msg, "500") \/ includes(msg, "503")
      THEN <<"Service Unavailable: Google Gemini is currently down or overloaded.">>
    ELSE IF includes(msg, "xhr error") \/ includes(msg, "Rpc failed")
              \/ includes(msg, "fetch failed")
      THEN <<"Connection Error: Unable to reach Google AI services.">>
    ELSE IF includes(msg, "SAFETY") \/ includes(msg, "blocked")
      THEN <<"Content Blocked: The image was flagged by safety filters.">>
    ELSE IF includes(msg, "valid JSON")
      THEN <<"Data Parsing Error: The AI response was malformed.">>
    ELSE <<"Analysis Failed: ">> \o msg \o <<"... (See console for details)">>

\* analyzeTrafficImage() is called: the first attempt is made.
AnalyzeTrafficImage ==
    /\ client.pc = "idle"
    /\ client' = [client EXCEPT !.pc = "request", !.attempt = 1]
    /\ UNCHANGED <<trackerVars, appVars>>

\* The attempt under way ends: with the parsed data, which is returned, or
\* in the catch, which waits and goes round again or leaves the loop for
\* handleGeminiError(lastError).
AttemptEnds ==
    /\ client.pc = "request"
    /\ \E r \in AttemptResults :
         LET msg == r.message
         IN  client' =
               IF r.ok
                 THEN [client EXCEPT !.pc = "returned",
                                     !.value = Some([result |-> "data"])]
               ELSE IF (isTransient(msg) \/ isRateLimit(msg))
                         /\ client.attempt < maxAttempts
                 THEN [client EXCEPT
                         !.pc = "delay", !.lastError = Some(msg),
                         !.waits = Append(@, waitTime(msg, client.attempt))]
               ELSE [client EXCEPT
                       !.pc = "threw", !.lastError = Some(msg),
                       !.value = Some([error |-> handleGeminiError(msg)])]
    /\ UNCHANGED <<trackerVars, appVars>>

\* await delay(waitTime) is over: continue with the next attempt.
DelayOver ==
    /\ client.pc = "delay"
    /\ client' = [client EXCEPT !.pc = "request", !.attempt = @ + 1]
    /\ UNCHANGED <<trackerVars, appVars>>

NextGemini ==
    \/ AnalyzeTrafficImage
    \/ AttemptEnds
    \/ DelayOver

SpecGemini == Init /\ [][NextGemini]_vars


-----------------------------------------------------------------------------
(* Properties *)

\* What the properties call a trackable detection: kind vehicle, with a box.
VehicleWithBox(d) == d.type = "vehicle" /\ d.box_2d # undefined
TrackablePositions == {p \in DOMAIN detections : VehicleWithBox(detections[p])}
MatchedIds == {m[1] : m \in matched}
CreatedIds == {created[i][1] : i \in DOMAIN created}
StoreIdsDuringCall == ids(prev) \cup CreatedIds

\* C1: without a reset() in between, no two tracks ever created share an id
\* (evicted tracks included), and ids are given in strictly increasing order,
\* across updates and, within one update, in the order of the detection list.
C1_IdsUniqueIncreasing ==
    /\ \A i, j \in DOMAIN issued : i < j => issued[i] < issued[j]
    /\ \A i, j \in DOMAIN tracks : i # j => tracks[i].id # tracks[j].id
    /\ ids(tracks) \cup {e.id : e \in evicted} \subseteq range(issued)
    /\ op = "update" =>
         \A i, j \in DOMAIN created :
            i < j => created[i][1] < created[j][1] /\ created[i][2] < created[j][2]

\* C1 witness: one update creates two tracks after earlier tracks were evicted.
C1_Witness ==
    op = "update" /\ Len(created) = 2 /\ evicted # {} /\ Len(issued) = 4

\* C2 as stated: a trackable detection whose IoU with a stored track's last
\* box exceeds 0.15, and which no other detection of the call beats on that
\* track, is returned with that track's id.
C2_MatchStabilityAsStated ==
    op = "update" =>
      \A t \in DOMAIN prev, p \in TrackablePositions :
        LET iou(q) == calculateIoU(prev[t].box, detections[q].box_2d)
        IN  (/\ FracGt(iou(p), iouThreshold)
             /\ \A q \in TrackablePositions \ {p} : ~FracGt(iou(q), iou(p)))
            => returned[p].trackId = Some(prev[t].id)

\* C2, amended: ... whose IoU with the track's last box exceeds 0.15 and is
\* strictly higher than that of every other detection of the call, and which
\* no track earlier in the store has taken in this call, is returned with
\* that track's id.
C2_MatchStability ==
    op = "update" =>
      \A t \in DOMAIN prev, p \in TrackablePositions :
        LET iou(q) == calculateIoU(prev[t].box, detections[q].box_2d)
        IN  (/\ FracGt(iou(p), iouThreshold)
             /\ \A q \in TrackablePositions \ {p} : FracGt(iou(p), iou(q))
             /\ \A u \in 1..(t - 1) : <<prev[u].id, p>> \notin matched)
            => returned[p].trackId = Some(prev[t].id)

\* C2 witness: a track picks its best detection over another one that also
\* passes the threshold.
C2_Witness ==
    /\ op = "update"
    /\ \E t \in DOMAIN prev, p \in TrackablePositions, q \in TrackablePositions :
         LET iou(x) == calculateIoU(prev[t].box, detections[x].box_2d)
         IN  /\ p # q
             /\ FracGt(iou(q), iouThreshold)
             /\ FracGt(iou(p), iou(q))
             /\ \A u \in 1..(t - 1) : <<prev[u].id, p>> \notin matched
             /\ returned[p].trackId = Some(prev[t].id)

\* C3: a track that no detection matched in 51 update() calls in a row is
\* not in the store after the 51st, and no later detection is given its id.
C3_Eviction ==
    /\ \A e \in idle : e[2] >= 51 => e[1] \notin ids(tracks)
    /\ op = "update" =>
         \A p \in TrackablePositions :
            returned[p].trackId \notin {Some(e.id) : e \in evicted}

\* C3 witness: a detection at the last box of an evicted track is tracked
\* again, under another id.
C3_Witness ==
    /\ op = "update"
    /\ \E e \in evicted, p \in TrackablePositions :
         /\ detections[p].box_2d = e.box
         /\ returned[p].trackId # undefined
         /\ returned[p].trackId # Some(e.id)

\* C4: after update() no stored track has missingFrames > 50, and the call
\* removes exactly the tracks whose missingFrames exceeds 50: a track at 50
\* or below stays.
C4_Cleanup ==
    op = "update" =>
      /\ \A i \in DOMAIN tracks : tracks[i].missingFrames <= 50
      /\ \A i \in DOMAIN prev :
           prev[i].id \notin ids(tracks)
             <=> (prev[i].id \notin MatchedIds /\ prev[i].missingFrames + 1 > 50)
      /\ CreatedIds \subseteq ids(tracks)

\* C4 witness: one update() removes a track that reached 51 and keeps another
\* at exactly 50.
C4_Witness ==
    /\ op = "update"
    /\ \E i \in DOMAIN tracks : tracks[i].missingFrames = 50
    /\ \E i \in DOMAIN prev : prev[i].id \notin ids(tracks)

\* C5: reset(), from any state (an already reset one included), leaves an
\* empty store, an active count of 0 and the counter at 1, so that the first
\* track created afterwards has id 1.
C5_Reset ==
    /\ op = "reset" =>
         tracks = <<>> /\ nextId = 1 /\ getActiveTracksCount(tracks) = 0
    /\ issued # <<>> => issued[1] = 1

\* C5 witness: reset() of a tracker that holds tracks and has given ids.
C5_Witness == op = "reset" /\ prev # <<>> /\ nextId = 1


\* C6 as stated: within one update() no two detections are returned with the
\* same trackId, and no track is matched to more than one detection.
C6_OneToOneAsStated ==
    op = "update" =>
      /\ \A p, q \in DOMAIN returned :
           p # q /\ returned[p].trackId # undefined
             => returned[p].trackId # returned[q].trackId
      /\ \A m, n \in matched : m[1] = n[1] => m = n

\* C6, amended: within one update() no two trackable detections are returned
\* with the same trackId, no track is matched to more than one detection and
\* no detection to more than one track.  (A detection that is not trackable
\* keeps the trackId it arrived with, which may equal one given in the call.)
C6_OneToOne ==
    op = "update" =>
      /\ \A p, q \in TrackablePositions :
           p # q => returned[p].trackId # returned[q].trackId
      /\ \A m, n \in matched : m[1] = n[1] \/ m[2] = n[2] => m = n

\* C6 witness: two stored tracks are matched to two detections of one call.
C6_Witness == op = "update" /\ Cardinality(matched) = 2

\* C7 as stated: every returned detection that carries a trackId refers to a
\* track that was in the store during that call.
C7_TrackIdRefersAsStated ==
    op = "update" =>
      \A p \in DOMAIN returned :
        returned[p].trackId # undefined
          => returned[p].trackId[1] \in StoreIdsDuringCall

\* C7, amended: every trackable detection is returned with a trackId, and it
\* refers to a track that was in the store during that call.  (A detection
\* that is not trackable keeps the trackId it arrived with.)
C7_TrackIdRefers ==
    op = "update" =>
      \A p \in TrackablePositions :
        /\ returned[p].trackId # undefined
        /\ returned[p].trackId[1] \in StoreIdsDuringCall

\* C7 witness: one call returns a detection matched to a stored track and a
\* detection for which a track was created.
C7_Witness == op = "update" /\ matched # {} /\ created # <<>>

\* C8: a detection that is not a vehicle, or has no box, is returned with
\* every field as it arrived, is matched to no track and has no track
\* created for it.
C8_Untrackable ==
    op = "update" =>
      /\ \A p \in DOMAIN detections \ TrackablePositions :
           /\ returned[p] = detections[p]
           /\ \A m \in matched : m[2] # p
           /\ \A i \in DOMAIN created : created[i][2] # p
      /\ ids(tracks) \ ids(prev) = CreatedIds
      /\ Len(created) = Cardinality(TrackablePositions \ {m[2] : m \in matched})

\* C8 witness: a call with a pedestrian and a vehicle without a box, next to
\* detections for which tracks are created.
C8_Witness ==
    /\ op = "update"
    /\ created # <<>>
    /\ \E p \in DOMAIN detections : detections[p].type # "vehicle"
    /\ \E p \in DOMAIN detections : detections[p].box_2d = undefined

\* C9: update() returns the list it was given, same items, order and length;
\* object, kind and box of every item are unchanged, and only trackable items
\* have tracking fields added or changed.
C9_SameList ==
    op = "update" =>
      /\ Len(returned) = Len(detections)
      /\ \A p \in DOMAIN detections :
           /\ returned[p].object = detections[p].object
           /\ returned[p].type = detections[p].type
           /\ returned[p].box_2d = detections[p].box_2d
           /\ ~VehicleWithBox(detections[p]) => returned[p] = detections[p]

\* C9 witness: a list in which a trackable item was annotated and another
\* item passed through.
C9_Witness ==
    /\ op = "update"
    /\ \E p \in TrackablePositions : returned[p] # detections[p]
    /\ \E p \in DOMAIN detections : ~VehicleWithBox(detections[p])

\* C10: update() never raises: no call ended in an error, and in every
\* reachable state every input list (the empty one, items without a box,
\* other kinds, boxes of zero or negative area) is processed to the end.
C10_NeverRaises ==
    /\ ~threw
    /\ \A f \in Frames \cup AgingFrames :
         LET r == update(tracks, nextId, f, frameTime(scenes + 1))
         IN  ~r.threw /\ Len(r.returned) = Len(f)

\* C10 witness: a list with a zero-area box, a negative-area box, a pedestrian
\* and an item without a box is processed against a non-empty store.
C10_Witness ==
    /\ op = "update"
    /\ ~threw
    /\ prev # <<>>
    /\ detections = <<vZ, vN, pA, vNoBox>>
    /\ Len(returned) = 4

\* The area the code computes for a box: (ymax - ymin) * (xmax - xmin).
BoxArea(box) == (box[3] - box[1]) * (box[4] - box[2])
\* A quotient <<n, d>> that is the number 0 (and not 0/0).
IsZero(q) == q[1] = 0 /\ q[2] # 0

\* C11: a trackable detection whose box has zero or negative area has IoU 0
\* with the box of every stored track (never a division by zero), is matched
\* to no track, and has a new track created for it under an id that no stored
\* or evicted track has.
C11_DegenerateBox ==
    op = "update" =>
      \A p \in TrackablePositions :
        BoxArea(detections[p].box_2d) <= 0 =>
          /\ \A t \in DOMAIN prev :
               IsZero(calculateIoU(prev[t].box, detections[p].box_2d))
          /\ \A m \in matched : m[2] # p
          /\ \E i \in DOMAIN created :
               /\ created[i][2] = p
               /\ created[i][1] \notin ids(prev) \cup {e.id : e \in evicted}
               /\ created[i][1] \in ids(tracks)
               /\ returned[p].trackId = Some(created[i][1])

\* C11 witness: a zero-area and a negative-area detection arrive while the
\* store holds a track whose area cancels the negative one (union 0), and a
\* track is created for each.
C11_Witness ==
    /\ op = "update"
    /\ \E t \in DOMAIN prev : BoxArea(prev[t].box) + BoxArea(BoxN) = 0
    /\ \E p, q \in TrackablePositions :
         /\ BoxArea(detections[p].box_2d) = 0
         /\ BoxArea(detections[q].box_2d) < 0
         /\ {p, q} \subseteq {created[i][2] : i \in DOMAIN created}

\* C12 as stated: a track created from a zero- or negative-area box is not in
\* the store once 50 update() calls have run after the call that created it.
C12_AgesOutAsStated ==
    \A i \in DOMAIN tracks :
      BoxArea(tracks[i].box) <= 0 =>
        \A e \in idle : e[1] = tracks[i].id => e[2] < 50

\* C12, amended: a track created from a zero- or negative-area box is never
\* matched, is still in the store after 50 further update() calls, and is not
\* in the store once 51 update() calls have run after the one that created it.
C12_AgesOut ==
    /\ \A i \in DOMAIN tracks :
         BoxArea(tracks[i].box) <= 0 =>
           <<tracks[i].id, tracks[i].missingFrames>> \in idle
    /\ op = "update" =>
         \A i \in DOMAIN prev :
           BoxArea(prev[i].box) <= 0 =>
             /\ prev[i].id \notin MatchedIds
             /\ \E e \in idle :
                  /\ e[1] = prev[i].id
                  /\ e[2] = prev[i].missingFrames + 1
                  /\ prev[i].id \in ids(tracks) <=> e[2] <= 50

\* C12 witness: the 51st update() after its creation has removed a track of a
\* zero-area box.
C12_Witness ==
    /\ op = "update"
    /\ \E e \in evicted : BoxArea(e.box) <= 0 /\ <<e.id, 51>> \in idle

\* The previous state of the track with the given id.
PrevTrack(id) == prev[CHOOSE i \in DOMAIN prev : prev[i].id = id]
StoredTrack(id) == tracks[CHOOSE i \in DOMAIN tracks : tracks[i].id = id]
\* floor(|deltaY| * 1000 * 1.5) of the centroid y components (times 2000)
\* oldY and newY, in exact arithmetic: floor(3 * |newY - oldY| / 4).
ExactSpeed(oldY, newY) == (3 * Abs(newY - oldY)) \div 4

\* C13 as stated: on every match the track's speed and the detection's
\* estimatedSpeed are floor(|deltaY| * 1000 * 1.5), deltaY being the new
\* centroid y minus the previous one; a track at [400,400,500,500] matched at
\* [430,400,530,500] gets 45, and a shift of 0.06 gives 90.
C13_SpeedFormula ==
    op = "update" =>
      \A m \in matched :
        LET newY == getCentroid(detections[m[2]].box_2d)[2]
            exact == ExactSpeed(PrevTrack(m[1]).centroid[2], newY)
        IN  /\ StoredTrack(m[1]).speed = exact
            /\ returned[m[2]].estimatedSpeed = Some(exact)

\* The track a returned detection is assigned to.
AssignedTrack(p) == StoredTrack(returned[p].trackId[1])

\* C14: after update() every trackable detection whose track has speed > 80
\* has isSpeeding = true, and a detection whose track has speed <= 80 (80
\* itself included) has isSpeeding as it arrived.
C14_Speeding ==
    op = "update" =>
      \A p \in TrackablePositions :
        /\ AssignedTrack(p).speed > 80 => returned[p].isSpeeding = Some(TRUE)
        /\ AssignedTrack(p).speed <= 80 =>
             returned[p].isSpeeding = detections[p].isSpeeding

\* C14 witness: one call matches a track at speed 80, left unflagged, and a
\* track at speed 81, flagged.
C14_Witness ==
    /\ op = "update"
    /\ \E p, q \in TrackablePositions :
         /\ AssignedTrack(p).speed = 80
         /\ returned[p].isSpeeding = undefined
         /\ AssignedTrack(q).speed = 81
         /\ detections[q].isSpeeding = undefined
         /\ returned[q].isSpeeding = Some(TRUE)

\* The tracks the dominant flow is taken over, their number and the sum of
\* their vertical velocities (times 2000): the flow is FlowSum / FlowCount.
InFlow(t) == t.missingFrames = 0 /\ Abs(t.dy) > 2
FlowCount == Cardinality({i \in DOMAIN tracks : InFlow(tracks[i])})
RECURSIVE FlowSumTo(_)
FlowSumTo(i) ==
    IF i = 0 THEN 0
    ELSE FlowSumTo(i - 1) + (IF InFlow(tracks[i]) THEN tracks[i].dy ELSE 0)
FlowSum == FlowSumTo(Len(tracks))
\* |dominantFlow| > 0.005, the track's |verticalVelocity| > 0.005, and the two
\* have different signs.
AgainstFlow(t) ==
    /\ FlowCount > 0
    /\ Abs(FlowSum) > 10 * FlowCount
    /\ Abs(t.dy) > 10
    /\ (FlowSum > 0) # (t.dy > 0)
WrongWayPositions == {p \in TrackablePositions : returned[p].isWrongWay = Some(TRUE)}

\* C15: update() sets isWrongWay = true on a trackable detection exactly when
\* |dominantFlow| > 0.005, its track's |verticalVelocity| > 0.005 and the two
\* differ in sign (otherwise the field is as it arrived); with five tracks
\* moving one way and one the other way at the same pace, only the detection
\* of the sixth is flagged.
C15_WrongWay ==
    op = "update" =>
      /\ \A p \in TrackablePositions :
           returned[p].isWrongWay =
             IF AgainstFlow(AssignedTrack(p)) THEN Some(TRUE)
             ELSE detections[p].isWrongWay
      /\ \A p \in TrackablePositions :
           (/\ Len(detections) = 6 /\ TrackablePositions = 1..6
            /\ AssignedTrack(p).dy \in {-42, 42}
            /\ \A q \in TrackablePositions \ {p} :
                 AssignedTrack(q).dy = -AssignedTrack(p).dy)
           => WrongWayPositions = {p}

\* C15 witness: five tracks have moved down by 0.021 and the sixth up by
\* 0.021, and only the sixth detection is flagged.
C15_Witness ==
    /\ op = "update"
    /\ detections = FlowOneAgainst
    /\ \A p \in 1..5 : AssignedTrack(p).dy = 42
    /\ AssignedTrack(6).dy = -42
    /\ WrongWayPositions = {6}

\* The centroid of a box as the history records it: [x, y], times 2000.
CentroidOf(box) == <<box[2] + box[4], box[1] + box[3]>>

\* C16: in every reachable state each track's history holds at most 10
\* centroids, in arrival order, the newest being the track's current centroid;
\* a match appends the new centroid, and when that would make 11 entries the
\* oldest is dropped.
C16_History ==
    /\ \A i \in DOMAIN tracks :
         /\ Len(tracks[i].history) \in 1..10
         /\ tracks[i].history[Len(tracks[i].history)] = tracks[i].centroid
    /\ op = "update" =>
         \A m \in matched :
           LET before == PrevTrack(m[1]).history
               after == StoredTrack(m[1]).history
               c == CentroidOf(detections[m[2]].box_2d)
           IN  after = IF Len(before) = 10
                         THEN SubSeq(before, 2, 10) \o <<c>>
                         ELSE before \o <<c>>

\* C16 witness: a track whose history holds 10 different centroids is matched
\* at yet another one; the oldest is gone and the new one is the last.
C16_Witness ==
    /\ op = "update"
    /\ \E m \in matched :
         LET before == PrevTrack(m[1]).history
             after == StoredTrack(m[1]).history
         IN  /\ Len(before) = 10
             /\ Cardinality({before[i] : i \in 1..10}) = 10
             /\ after[10] \notin {before[i] : i \in 1..10}
             /\ after[1] = before[2]
             /\ Len(after) = 10

MatchedPositions == {m[2] : m \in matched}
\* The ids issued before the current update() call.
IssuedBefore == range(issued) \ CreatedIds

C18_CountIsPure ==
    [][op' = "getActiveTracksCount" =>
         /\ count' = Cardinality({i \in DOMAIN tracks : tracks[i].missingFrames = 0})
         /\ tracks' = tracks
         /\ nextId' = nextId]_vars

\* C18 witness: the count is read while the store holds tracks seen in the
\* last frame and tracks that were not.
C18_Witness ==
    /\ op = "getActiveTracksCount"
    /\ tracks = prev
    /\ count > 0
    /\ count < Len(tracks)

\* Two quotients <<n, d>> (d not 0) that are the same number.
SameNumber(q, r) == q[1] * r[2] = r[1] * q[2]
WellFormed(box) ==
    /\ box[1] <= box[3] /\ box[2] <= box[4]
    /\ \A i \in 1..4 : box[i] \in 0..1000

\* C19: calculateIoU(A, B) = calculateIoU(B, A) for every two boxes A and B.
C19_IoUSymmetric ==
    op = "calculateIoU" =>
      /\ iouResult = calculateIoU(argB, argA)
      /\ iouResult[2] # 0

\* C19 witness: two different boxes that overlap in part, one larger than the
\* other.
C19_Witness ==
    /\ op = "calculateIoU"
    /\ BoxArea(argA) > BoxArea(argB)
    /\ BoxArea(argB) > iouResult[1]
    /\ iouResult[1] > 0

\* C20: for well-formed boxes (ymin <= ymax, xmin <= xmax, coordinates in
\* 0..1000) 0 <= calculateIoU(A, B) <= 1, and calculateIoU(A, A) = 1 for every
\* box A of positive area.
C20_IoUBounds ==
    (op = "calculateIoU" /\ WellFormed(argA) /\ WellFormed(argB)) =>
      /\ iouResult[2] > 0
      /\ 0 <= iouResult[1]
      /\ iouResult[1] <= iouResult[2]
      /\ (argA = argB /\ BoxArea(argA) > 0) => SameNumber(iouResult, <<1, 1>>)

\* C20 witness: the IoU of a well-formed box of positive area with itself.
C20_Witness ==
    /\ op = "calculateIoU"
    /\ WellFormed(argA)
    /\ argA = argB
    /\ BoxArea(argA) > 0
    /\ iouResult[1] = iouResult[2]

\* The reference assignment.  RefBest: among the positions avail, the one of
\* the largest IoU with box, the earliest of them on a tie, if that IoU is
\* greater than 0.15; 0 when there is none.
RefIoU(box, p) == calculateIoU(box, detections[p].box_2d)
RefBest(box, avail) ==
    LET ok == {p \in avail : FracGt(RefIoU(box, p), <<15, 100>>)}
    IN  IF ok = {} THEN 0
        ELSE CHOOSE p \in ok :
               \A q \in ok \ {p} :
                 \/ FracGt(RefIoU(box, p), RefIoU(box, q))
                 \/ (~FracGt(RefIoU(box, q), RefIoU(box, p)) /\ p < q)
\* The tracks of the store from position t on, in order, each taking its best
\* position among those not in taken.
RECURSIVE RefAssign(_, _)
RefAssign(t, taken) ==
    IF t > Len(prev) THEN {}
    ELSE LET p == RefBest(prev[t].box, TrackablePositions \ taken)
         IN  IF p = 0 THEN RefAssign(t + 1, taken)
             ELSE {<<prev[t].id, p>>} \cup RefAssign(t + 1, taken \cup {p})

\* C21: the matches of update() are those of the reference greedy assignment:
\* the tracks in store order, each taking among the detections not yet taken
\* in this call the one of the largest IoU with its last box, the earliest on
\* a tie, and only if that IoU is strictly greater than 0.15.
C21_GreedyReference ==
    op = "update" => matched = RefAssign(1, {})

\* C21 witness: a track takes the first of two detections that overlap it
\* equally.
C21_Witness ==
    /\ op = "update"
    /\ \E t \in DOMAIN prev, q \in TrackablePositions :
         \E m \in matched :
           /\ m[1] = prev[t].id
           /\ m[2] < q
           /\ RefIoU(prev[t].box, q) = RefIoU(prev[t].box, m[2])

UnassignedPositions == TrackablePositions \ MatchedPositions
CreatedPositions == {created[i][2] : i \in DOMAIN created}

\* C22: each update() appends one new track for every trackable detection the
\* matcher left unassigned, in list order and at the detection's box, and
\* creates no track in any other case.
C22_CreatedExactly ==
    op = "update" =>
      /\ CreatedPositions = UnassignedPositions
      /\ Len(created) = Cardinality(UnassignedPositions)
      /\ ids(tracks) \ ids(prev) = CreatedIds
      /\ CreatedIds \cap ids(prev) = {}
      /\ \A i \in DOMAIN created :
           LET new == tracks[Len(tracks) - Len(created) + i]
           IN  /\ new.id = created[i][1]
               /\ new.box = detections[created[i][2]].box_2d
      /\ \A i \in 1..(Len(tracks) - Len(created)) : tracks[i].id \in ids(prev)

\* C22 witness: a call in which a track is matched and a track is created for
\* another detection, one that overlaps a stored track by more than 0.15 but
\* was left unassigned.
C22_Witness ==
    /\ op = "update"
    /\ matched # {}
    /\ \E q \in CreatedPositions, t \in DOMAIN prev :
         FracGt(RefIoU(prev[t].box, q), <<15, 100>>)

\* C23: update() changes each track that was in the store in one of two
\* ways: a matched track has missingFrames 0 afterwards; an unmatched track
\* has missingFrames one more than before and every other field (id, box,
\* centroid, history, speed, dy, laneStatus, createdAt) as before.  (It leaves
\* the store only when that count has passed 50.)
C23_TrackFrame ==
    op = "update" =>
      \A i \in DOMAIN prev :
        IF prev[i].id \in MatchedIds
          THEN /\ prev[i].id \in ids(tracks)
               /\ StoredTrack(prev[i].id).missingFrames = 0
          ELSE IF prev[i].id \in ids(tracks)
            THEN StoredTrack(prev[i].id) =
                   [prev[i] EXCEPT !.missingFrames = prev[i].missingFrames + 1]
            ELSE prev[i].missingFrames + 1 > 50

\* C23 witness: in one call a track is matched and another, which has a
\* speed, a velocity and two centroids in its history, is not.
C23_Witness ==
    /\ op = "update"
    /\ matched # {}
    /\ \E i \in DOMAIN prev :
         /\ prev[i].id \notin MatchedIds
         /\ prev[i].speed > 0
         /\ prev[i].dy # 0
         /\ Len(prev[i].history) >= 2
         /\ StoredTrack(prev[i].id).missingFrames = prev[i].missingFrames + 1

\* The tracks matched in this call whose |dy| exceeds 0.001, their number and
\* the sum of their dy (times 2000).
MatchedMoving == {i \in DOMAIN tracks : tracks[i].id \in MatchedIds /\ Abs(tracks[i].dy) > 2}
RECURSIVE MatchedDyTo(_)
MatchedDyTo(i) ==
    IF i = 0 THEN 0
    ELSE MatchedDyTo(i - 1) + (IF i \in MatchedMoving THEN tracks[i].dy ELSE 0)

\* C24: the dominant flow of update() is the mean of dy over the tracks with
\* missingFrames = 0 and |dy| > 0.001, and 0 when there is none; these are the
\* tracks matched in this call that moved: tracks left unmatched (which keep
\* their velocity) and tracks created in the call do not contribute.
C24_DominantFlow ==
    op = "update" =>
      /\ dominantDy(tracks) =
           IF MatchedMoving = {} THEN <<0, 1>>
           ELSE <<MatchedDyTo(Len(tracks)), Cardinality(MatchedMoving)>>
      /\ MatchedMoving = {i \in DOMAIN tracks : InFlow(tracks[i])}

\* C24 witness: tracks matched in the call have moved while the store also
\* holds a track that was not matched and still has its old velocity.
C24_Witness ==
    /\ op = "update"
    /\ MatchedMoving # {}
    /\ \E i \in DOMAIN tracks :
         /\ tracks[i].id \notin MatchedIds
         /\ tracks[i].missingFrames > 0
         /\ Abs(tracks[i].dy) > 2
    /\ dominantDy(tracks)[1] # 0

\* C25: a track created by update() has speed 0, dy 0, laneStatus Stable,
\* missingFrames 0, the one centroid of its detection's box as history and the
\* call's timestamp as createdAt; its detection is returned with the new
\* trackId, estimatedSpeed 0 and laneEvent Stable, and with isSpeeding and
\* isWrongWay as they arrived.
C25_NewTrack ==
    op = "update" =>
      \A i \in DOMAIN created :
        LET t == StoredTrack(created[i][1])
            p == created[i][2]
        IN  /\ t.speed = 0 /\ t.dy = 0 /\ t.missingFrames = 0
            /\ t.laneStatus = "Stable"
            /\ t.box = detections[p].box_2d
            /\ t.class = detections[p].object
            /\ t.centroid = CentroidOf(detections[p].box_2d)
            /\ t.history = <<CentroidOf(detections[p].box_2d)>>
            /\ t.createdAt = timestamp
            /\ returned[p].trackId = Some(created[i][1])
            /\ returned[p].estimatedSpeed = Some(0)
            /\ returned[p].laneEvent = Some("Stable")
            /\ returned[p].isSpeeding = detections[p].isSpeeding
            /\ returned[p].isWrongWay = detections[p].isWrongWay

\* C25 witness: in a later call a track is created for a detection, next to
\* a stored track that was matched.
C25_Witness ==
    /\ op = "update"
    /\ timestamp > 1000
    /\ matched # {}
    /\ \E i \in DOMAIN created :
         /\ returned[created[i][2]].estimatedSpeed = Some(0)
         /\ returned[created[i][2]].isSpeeding = undefined
         /\ StoredTrack(created[i][1]).createdAt = timestamp

\* The history of a track after a match at centroid c: the centroid is
\* appended, the oldest entry dropped beyond 10.
HistoryAfter(before, c) ==
    IF Len(before) >= 10 THEN SubSeq(before, 2, Len(before)) \o <<c>>
    ELSE before \o <<c>>
\* The entry the new centroid is compared with: the fourth from the end of
\* the history, the new centroid counted, or the oldest when it has fewer.
EntryBack(h) == IF Len(h) >= 4 THEN h[Len(h) - 3] ELSE h[1]
LaneStatusFor(before, c) ==
    IF Abs(c[1] - EntryBack(HistoryAfter(before, c))[1]) > 60
      THEN "Lane Change" ELSE "Stable"

\* C26: on every match the track's laneStatus and the detection's laneEvent
\* are Lane Change if the new centroid x differs by more than 0.03 from the x
\* of the history entry up to 4 entries back (the oldest when there are
\* fewer), and Stable otherwise, whatever the status was before.
C26_LaneStatus ==
    op = "update" =>
      \A m \in matched :
        LET expected == LaneStatusFor(PrevTrack(m[1]).history,
                                      CentroidOf(detections[m[2]].box_2d))
        IN  /\ StoredTrack(m[1]).laneStatus = expected
            /\ returned[m[2]].laneEvent = Some(expected)

\* C26 witness: a track in Lane Change, with more than four centroids in its
\* history, is matched within 0.03 of where it was four entries back and is
\* Stable again.
C26_Witness ==
    /\ op = "update"
    /\ \E m \in matched :
         /\ PrevTrack(m[1]).laneStatus = "Lane Change"
         /\ Len(PrevTrack(m[1]).history) >= 4
         /\ StoredTrack(m[1]).laneStatus = "Stable"
         /\ StoredTrack(m[1]).history[1][1] # StoredTrack(m[1]).centroid[1]
         /\ returned[m[2]].laneEvent = Some("Stable")

\* C27: no track ever has laneStatus Merging, and update() never writes
\* laneEvent Merging: a detection it tracks leaves with Stable or Lane
\* Change, and a returned Merging is one the caller passed in on a detection
\* that update() does not touch.
C27_MergingUnreachable ==
    /\ \A i \in DOMAIN tracks : tracks[i].laneStatus \in {"Stable", "Lane Change"}
    /\ op = "update" =>
         \A p \in DOMAIN returned :
           /\ p \in MatchedPositions \cup CreatedPositions =>
                returned[p].laneEvent \in {Some("Stable"), Some("Lane Change")}
           /\ returned[p].laneEvent = Some("Merging") =>
                /\ detections[p].laneEvent = Some("Merging")
                /\ ~VehicleWithBox(detections[p])

\* C27 witness: a vehicle that arrives tagged Merging is tracked and leaves
\* with a lane event of the tracker's own.
C27_Witness ==
    /\ op = "update"
    /\ \E p \in MatchedPositions \cup CreatedPositions :
         /\ detections[p].laneEvent = Some("Merging")
         /\ returned[p].laneEvent = Some("Stable")

\* The loops that sample frames of one medium until told to stop.
LoopKinds == {"simulation", "video"}
\* The tasks that are inside processImage().
InProcessImage == {t \in tasks : t.pc \in {"delay1", "analysis", "delay2"}}

\* C28: the first update() that carries detections of a new tracking
\* context (a video upload, a camera session, a simulation run, a file of a
\* batch) comes after a reset() that ran since that context began.
C28_ResetBeforeFirstUpdate ==
    /\ \A t \in InProcessImage : contextOf(t) \notin unreset
    /\ (op = "update" /\ caller # undefined) => caller[1].clean

\* C28 witness: the second file of a batch is fed to a tracker that has been
\* reset since the first file was.
C28_Witness ==
    /\ op = "update"
    /\ caller # undefined
    /\ caller[1].kind = "batch"
    /\ caller[1].i = 2
    /\ caller[1].clean
    /\ prev = <<>>

\* C29: the tracker is never fed by two frame-sampling loops at once: a
\* video or simulation loop whose session was stopped, and that was
\* suspended in an await when a new session was started, does not begin
\* another frame next to the new loop, and feeds update() no frame begun
\* after a later start.
C29_OneLoopAtATime ==
    /\ \A t, u \in tasks :
         (t.kind \in LoopKinds /\ u.kind = t.kind /\ t.session < u.session)
           => t.began < u.session
    /\ (op = "update" /\ caller # undefined /\ caller[1].kind \in LoopKinds)
         => caller[1].began = caller[1].session

\* C30: while the camera is active at most one frame of its stream is in
\* analysis, and the frames are fed to update() in the order of capture.
C30_OneCameraFrame ==
    /\ isCameraActive =>
         Cardinality({t \in tasks : t.kind = "camera"
                                      /\ t.session = cameraStream[1]}) <= 1
    /\ (op = "update" /\ caller # undefined /\ caller[1].kind = "camera")
         => ~caller[1].late

\* A camera frame of the stream shown whose analysis has failed, its retry
\* timer pending.
CameraFrameFailed(s, k) ==
    /\ isCameraActive
    /\ cameraStream = Some(s)
    /\ \E t \in tasks : /\ t.kind = "camera" /\ t.session = s /\ t.i = k
                         /\ t.pc \in {"timer4s", "timer10s"}

\* C31: in camera mode, after the analysis of a frame has failed, a later
\* frame is captured and passed to processImage as long as the camera
\* stays active.
C31_CameraRetries ==
    \A s \in 1..MaxStarts : \A k \in 1..(MaxFrames - 1) :
        CameraFrameFailed(s, k)
            ~> (~(isCameraActive /\ cameraStream = Some(s)) \/ captured > k)

\* The video loop started by upload s, as long as it runs
VideoTasks(s) == {t \in tasks : t.kind = "video" /\ t.session = s}

\* What processNextFrame() tests before it seeks
VideoIsOver(t) == ~videoProcessingRef \/ (videoSrc = "loaded" /\ t.i > VideoDuration)

\* One step of the loop of upload s: it begins with a seek to time 0, goes
\* from a seek to the analysis of the frame at that time, from a settled
\* analysis to the animation frame with the time one later, and from there
\* to the next seek, or it ends, which it does exactly when the video is
\* over, clearing processingVideo and setting COMPLETE.
VideoLoopStep(s) ==
    LET after == {u \in tasks' : u.kind = "video" /\ u.session = s}
    IN  /\ Cardinality(after) <= 1
        /\ (VideoTasks(s) = {}) =>
              \A u \in after : u.pc = "seek" /\ u.i = 0
        /\ \A t \in VideoTasks(s) :
              /\ (after = {}) =>
                    /\ t.pc = "raf" /\ VideoIsOver(t)
                    /\ ~processingVideo' /\ ~videoProcessingRef'
                    /\ status' = "COMPLETE"
              /\ \A u \in after :
                    \/ u.pc = t.pc /\ u.i = t.i
                    \/ t.pc = "seek" /\ u.pc = "analysis" /\ u.i = t.i
                    \/ t.pc = "analysis" /\ u.pc = "raf" /\ u.i = t.i + 1
                    \/ t.pc = "raf" /\ u.pc = "seek" /\ u.i = t.i
                         /\ ~VideoIsOver(t)

\* A seek of the loop that cannot end: the video element has no video
\* (stopAllModes() has removed it, or it could not be loaded), or it has one
\* and no seek is in progress on it.
SeekNeverSettles(s) ==
    \E t \in VideoTasks(s) :
        /\ t.pc = "seek"
        /\ videoSrc = "none" \/ (videoSrc = "loaded" /\ ~seeking)

\* C32: the video loop takes the frames at times 0, 1, 2, ... one after
\* another, the next seek only after the analysis of the frame before has
\* settled, and it ends, clearing processingVideo and setting status
\* COMPLETE, once the cursor is past the duration or videoProcessingRef is
\* cleared, provided its seeks and requests settle.
C32_VideoLoop ==
    /\ [][\A s \in 1..MaxStarts : VideoLoopStep(s)]_vars
    /\ \A s \in 1..MaxStarts :
          (VideoTasks(s) # {}) ~> (VideoTasks(s) = {} \/ SeekNeverSettles(s))

\* A loop has analysed the last frame of its video and ended.
C32_Witness ==
    /\ op = "update" /\ caller # undefined
    /\ caller[1].kind = "video" /\ caller[1].i = VideoDuration
    /\ VideoTasks(caller[1].session) = {}
    /\ status = "COMPLETE" /\ ~processingVideo

\* C33: a video frame whose analysis fails is skipped and the loop goes on
\* (no tracker update for it, the cursor one later), and when the failure
\* is a rate-limit response (HTTP 429) the loop first pauses 5 s.
C33_FailedFrameSkipped ==
    [][\A t \in tasks : \A failure \in Failures :
         (t.kind = "video" /\ ProcessImageFailedWith(t, failure)) =>
             /\ UNCHANGED <<tracks, nextId>>
             /\ IF failure = "429"
                  THEN [t EXCEPT !.pc = "backoff"] \in tasks'
                  ELSE [t EXCEPT !.pc = "raf", !.i = @ + 1] \in tasks']_vars

\* What the claim calls a rate limit and a transient failure
NamesAny(msg, parts) == \E k \in DOMAIN msg : msg[k] \in parts
RateLimitFailure(msg) == NamesAny(msg, {"429", "RESOURCE_EXHAUSTED", "Quota"})
TransientFailure(msg) ==
    NamesAny(msg, {"500", "503", "xhr error", "fetch failed", "Overloaded"})

\* C34: the Gemini client makes at most 3 attempts; it returns at the first
\* attempt that parses; it waits and retries only after a transient or
\* rate-limit failure of attempt 1 or 2, attempt x 1 s and attempt x 5 s;
\* after any other failure, or the third, it throws a translated error; it
\* never ends without a result or an error.
C34_ClientAttempts ==
    /\ client.pc \in {"idle", "request", "delay", "returned", "threw"}
    /\ client.attempt <= 3
    /\ client.pc # "idle" =>
          Len(client.waits) =
              IF client.pc = "delay" THEN client.attempt ELSE client.attempt - 1
    /\ client.pc = "delay" =>
          LET msg == client.lastError[1]
          IN  /\ client.attempt < 3
              /\ RateLimitFailure(msg) \/ TransientFailure(msg)
              /\ client.waits[client.attempt] =
                    IF RateLimitFailure(msg) THEN client.attempt * 5000
                                             ELSE client.attempt * 1000
    /\ client.pc = "returned" => client.value = Some([result |-> "data"])
    /\ client.pc = "threw" =>
          LET msg == client.lastError[1]
          IN  /\ client.attempt = 3
                    \/ ~(RateLimitFailure(msg) \/ TransientFailure(msg))
              /\ client.value # undefined
              /\ DOMAIN client.value[1] = {"error"}
              /\ client.value[1].error # msg

\* Three attempts: a rate limit, a transient failure, then a failure again
C34_Witness ==
    /\ client.pc = "threw"
    /\ client.attempt = 3
    /\ client.waits = <<5000, 2000>>

\* The stored tracks seen in the call that has just returned
ActiveTracks == {i \in DOMAIN tracks : tracks[i].missingFrames = 0}

\* C35: right after update(), getActiveTracksCount() is the number of
\* trackable detections of the call, and each of them carries the id of a
\* track of its own that is in the store with missingFrames = 0.
C35_ActiveCount ==
    op = "update" =>
      /\ getActiveTracksCount(tracks) = Cardinality(TrackablePositions)
      /\ \A p \in TrackablePositions :
            /\ returned[p].trackId # undefined
            /\ \E i \in ActiveTracks : tracks[i].id = returned[p].trackId[1]
      /\ \A p, q \in TrackablePositions :
            p # q => returned[p].trackId # returned[q].trackId

\* A call with a matched track, a detection that is not trackable, and a
\* stored track that no detection matched.
C35_Witness ==
    /\ op = "update"
    /\ matched # {}
    /\ TrackablePositions # DOMAIN detections
    /\ Cardinality(ActiveTracks) < Len(tracks)

\* update() has set isWrongWay at position p: the flag is there on return,
\* and where it was there on arrival the track is against the flow.
SetWrongWay(p) ==
    /\ returned[p].isWrongWay = Some(TRUE)
    /\ detections[p].isWrongWay = Some(TRUE) => AgainstFlow(AssignedTrack(p))

\* C36: when update() flags a detection as wrong-way, another detection of
\* the call has |verticalVelocity| > 0.005 and is not flagged; with one
\* moving track only, nothing is flagged.
C36_WrongWayNeedsFlow ==
    op = "update" =>
      /\ \A p \in TrackablePositions :
            SetWrongWay(p) =>
              \E q \in TrackablePositions \ {p} :
                  /\ Abs(AssignedTrack(q).dy) > 10
                  /\ ~SetWrongWay(q)
      /\ FlowCount = 1 => \A p \in TrackablePositions : ~SetWrongWay(p)

\* One detection is flagged next to one that moves and is not flagged.
C36_Witness ==
    /\ op = "update"
    /\ \E p, q \in TrackablePositions :
          /\ SetWrongWay(p) /\ ~SetWrongWay(q)
          /\ Abs(AssignedTrack(q).dy) > 10
    /\ FlowCount > 1

\* C37: a track matched again after k updates without a match (1 <= k <= 50)
\* keeps its id, is back at missingFrames = 0, and its speed is that of the
\* whole way from the position of its last match, which the k updates left
\* as it was; it is not divided by the cycles gone by.
C37_Rematch ==
    op = "update" =>
      /\ \A i \in DOMAIN tracks :
            (tracks[i].missingFrames >= 1 /\ tracks[i].id \in ids(prev)) =>
                [tracks[i] EXCEPT !.missingFrames = 0]
                    = [PrevTrack(tracks[i].id) EXCEPT !.missingFrames = 0]
      /\ \A m \in matched :
            LET before == PrevTrack(m[1])
                after == StoredTrack(m[1])
                speed == speedOf(before.centroid[2],
                                 getCentroid(detections[m[2]].box_2d)[2])
            IN  before.missingFrames >= 1 =>
                  /\ before.missingFrames <= 50
                  /\ after.id = before.id
                  /\ returned[m[2]].trackId = Some(before.id)
                  /\ after.missingFrames = 0
                  /\ after.speed = speed
                  /\ returned[m[2]].estimatedSpeed = Some(speed)

\* A track is matched again after 50 updates without a match, away from
\* where it was.
C37_Witness ==
    /\ op = "update"
    /\ \E m \in matched :
          /\ PrevTrack(m[1]).missingFrames = 50
          /\ StoredTrack(m[1]).speed > 0

\* C38: update() never clears isSpeeding or isWrongWay: at every position a
\* flag is on return either as it arrived or true, so a detection that
\* arrives with a flag true has it true on return, whatever its track does.
C38_FlagsNeverCleared ==
    op = "update" =>
      \A p \in DOMAIN detections :
        /\ returned[p].isSpeeding \in {detections[p].isSpeeding, Some(TRUE)}
        /\ returned[p].isWrongWay \in {detections[p].isWrongWay, Some(TRUE)}

\* A detection arrives with both flags true and is matched to a track that
\* this call finds neither speeding nor against the flow; the flags stay.
C38_Witness ==
    /\ op = "update"
    /\ \E m \in matched :
          /\ detections[m[2]].isSpeeding = Some(TRUE)
          /\ detections[m[2]].isWrongWay = Some(TRUE)
          /\ ~isSpeeding(StoredTrack(m[1]))
          /\ StoredTrack(m[1]).dy = 0
          /\ returned[m[2]].isSpeeding = Some(TRUE)
          /\ returned[m[2]].isWrongWay = Some(TRUE)

\* An analysis request is sent in this step: a processImage() reaches
\* analyzeTrafficImage().
RequestSent == \E u \in tasks' \ tasks : u.pc = "analysis"

\* C39: from stopAllModes() by Reset, Stop or Home until the next start, no
\* tracker.update() runs and nothing is shown (the tracker stays as reset()
\* left it and the result stays cleared; setHistory runs with setResult),
\* and no analysis request is sent.
C39_NothingAfterStop ==
    /\ [](stopped => (caller = undefined /\ tracks = <<>> /\ nextId = 1
                        /\ uiResult = undefined))
    /\ [][(stopped /\ stopped') => ~RequestSent]_vars

====
